---- MODULE Spec2Model ----
(***************************************************************************)
(* Model of the GifAlchemy editor (src/components/GifEditor.tsx): the      *)
(* project list, the per-project frame-processing run started by           *)
(* triggerProcessProject (two workers draining a queue of frame jobs, a    *)
(* remote edit with local fallback, the encoder call) and the batch        *)
(* scheduler effect that starts the next idle project.                     *)
(*                                                                         *)
(* JavaScript runs one task at a time.  Code between two awaits is one     *)
(* atomic step.  A continuation of an await on an already settled promise  *)
(* (await processSingleFrame, await Promise.all) is a microtask: it runs   *)
(* before any timer, network completion or user event.  The model gives    *)
(* those steps priority through MicrotaskPending.  React state setters     *)
(* are functional updaters applied in call order; they are modelled as     *)
(* immediate updates of the state.                                         *)
(***************************************************************************)
EXTENDS Integers, Sequences, FiniteSets, TLC

\* ---------------------------------------------------------------- bounds
MaxProjects == 2     \* files uploaded in Spec and FairSpec
MaxFrames == 1       \* frames of a parsed file in Spec and FairSpec
MaxRuns == 2         \* calls of triggerProcessProject that start workers
MaxRunFrames == 3    \* frames of the project of RunSpec and CancelSpec
MaxPixels == 1       \* pixels of the frame given to processFrameLocal
MaxDecoded == 102    \* frames of the file decoded in UploadSpec

\* ------------------------------------------------------------- constants
CONCURRENCY == 2

\* constants.ts: MAX_FRAMES
MAX_FRAMES == 50

VARIABLES
    projects,           \* useState<GifProject[]>: the project list, in order
    isBatchProcessing,  \* useState(false): the batch-active flag
    abortRef,           \* useRef(false): the shared cancellation flag
    runs,               \* the calls of triggerProcessProject that passed the checks
    parsing,            \* ids of the uploaded files whose parse is pending
    uploaded,           \* number of files uploaded so far
    call                \* the call of a function of src/services examined on its own

vars == <<projects, isBatchProcessing, abortRef, runs, parsing, uploaded, call>>

\* ----------------------------------------------------------------- types
ProcessingStatus == {"IDLE", "PARSING", "PROCESSING", "ENCODING", "COMPLETED", "ERROR"}

\* the editor configurations a project can carry (EditorConfig without the
\* recolor rules, which the scheduling does not read)
EditorConfig ==
    { [activeModes |-> {"remove-bg"}, bgReplaceColor |-> "transparent"],
      [activeModes |-> {"remove-bg"}, bgReplaceColor |-> "#FFFFFF"],
      [activeModes |-> {"recolor"}, bgReplaceColor |-> "transparent"],
      [activeModes |-> {}, bgReplaceColor |-> "transparent"] }

NoResult == [idx |-> -1, by |-> "none"]

\* no service function is examined on its own
NoCall == [fn |-> "none"]

\* an error thrown by editFrameWithGemini: its status and the keywords its
\* message contains
RemoteErrors ==
    { [status |-> 429, words |-> {"429", "quota"}],
      [status |-> 429, words |-> {}],
      [status |-> 0, words |-> {"exhausted"}],
      [status |-> 0, words |-> {}] }

\* outcomes of the remote path of one job: imageDataToBase64 throws before
\* the call, the call returns an image that is read back, the call returns
\* an image but there is no 2D context to read it back, or the call throws
RemoteOutcomes ==
    { [kind |-> "nobase64", status |-> 0, words |-> {}],
      [kind |-> "image", status |-> 0, words |-> {}],
      [kind |-> "noctx", status |-> 0, words |-> {}] }
    \cup { [kind |-> "error", status |-> e.status, words |-> e.words] : e \in RemoteErrors }

\* the call returns data that the browser cannot decode as an image: neither
\* img.onload nor an exception follows (line 287 waits for onload only)
Undecodable == [kind |-> "undecodable", status |-> 0, words |-> {}]

\* --------------------------------------------------------------- helpers
Min(a, b) == IF a < b THEN a ELSE b

\* Math.round(x / n * 100) for naturals x <= n, n > 0
RoundPercent(x, n) == (200 * x + n) \div (2 * n)

isProcessingAny ==
    \E i \in DOMAIN projects : projects[i].status \in {"PROCESSING", "ENCODING"}

ProjectIds == { projects[i].id : i \in DOMAIN projects }

ProjectById(id) == projects[CHOOSE i \in DOMAIN projects : projects[i].id = id]

\* { ...p, ...updates }
Merge(p, updates) ==
    [f \in DOMAIN p |-> IF f \in DOMAIN updates THEN updates[f] ELSE p[f]]

\* setProjects(prev => prev.map(p => p.id === id ? { ...p, ...updates } : p))
updateProjectStatus(ps, id, updates) ==
    [i \in DOMAIN ps |-> IF ps[i].id = id THEN Merge(ps[i], updates) ELSE ps[i]]

nextProjectLast ==
    IF \E i \in DOMAIN projects : projects[i].status = "IDLE"
    THEN CHOOSE i \in DOMAIN projects :
            /\ projects[i].status = "IDLE"
            /\ \A j \in DOMAIN projects : projects[j].status = "IDLE" => i >= j
    ELSE 0

\* projects.find(p => p.status === IDLE): index of the first idle project, 0 if none
nextProject ==
    IF \E i \in DOMAIN projects : projects[i].status = "IDLE"
    THEN CHOOSE i \in DOMAIN projects :
            /\ projects[i].status = "IDLE"
            /\ \A j \in DOMAIN projects : projects[j].status = "IDLE" => i <= j
    ELSE 0

\* ------------------------------------------------------------- microtasks
WorkerIds(r) == DOMAIN runs[r].workers

AllWorkersExited(r) == \A w \in WorkerIds(r) : runs[r].workers[w].pc = "exit"

SomeWorkerRejected(r) == \E w \in WorkerIds(r) : runs[r].workers[w].pc = "rejected"

MicrotaskPending ==
    \E r \in DOMAIN runs :
        \/ \E w \in WorkerIds(r) : runs[r].workers[w].pc = "loop"
        \/ runs[r].pc = "workers" /\ (AllWorkersExited(r) \/ SomeWorkerRejected(r))

\* ------------------------------------------------------------------ Init
Init ==
    /\ projects = <<>>
    /\ isBatchProcessing = FALSE
    /\ abortRef = FALSE
    /\ runs = <<>>
    /\ parsing = {}
    /\ uploaded = 0
    /\ call = NoCall

\* ------------------------------------------------------- project handlers
\* handleFileUpload for one file, up to the start of its background parse;
\* the project inherits the global settings cfg
handleFileUpload(cfg) ==
    /\ ~MicrotaskPending
    /\ uploaded < MaxProjects
    /\ projects' = Append(projects,
          [id |-> uploaded + 1, frames |-> 0,
           activeModes |-> cfg.activeModes, bgReplaceColor |-> cfg.bgReplaceColor,
           status |-> "PARSING", progress |-> 0, error |-> "null", resultBlob |-> 0])
    /\ parsing' = parsing \cup {uploaded + 1}
    /\ uploaded' = uploaded + 1
    /\ UNCHANGED <<isBatchProcessing, abortRef, runs, call>>

\* the background parse of an uploaded file resolves with n frames
ParseDone(id, n) ==
    /\ ~MicrotaskPending
    /\ id \in parsing
    /\ projects' = updateProjectStatus(projects, id, [frames |-> n, status |-> "IDLE"])
    /\ parsing' = parsing \ {id}
    /\ UNCHANGED <<isBatchProcessing, abortRef, runs, uploaded, call>>

\* the background parse of an uploaded file throws
ParseFail(id) ==
    /\ ~MicrotaskPending
    /\ id \in parsing
    /\ projects' = updateProjectStatus(projects, id,
                      [status |-> "ERROR", error |-> "Failed to parse GIF."])
    /\ parsing' = parsing \ {id}
    /\ UNCHANGED <<isBatchProcessing, abortRef, runs, uploaded, call>>

removeProject(id) ==
    /\ ~MicrotaskPending
    /\ id \in ProjectIds
    /\ projects' = SelectSeq(projects, LAMBDA p : p.id # id)
    /\ UNCHANGED <<isBatchProcessing, abortRef, runs, parsing, uploaded, call>>

applyGlobalProjectsKeepingStatus(cfg) ==
    [i \in DOMAIN projects |->
        Merge(projects[i],
              [activeModes |-> cfg.activeModes, bgReplaceColor |-> cfg.bgReplaceColor,
               resultBlob |-> 0, progress |-> 0])]

\* the projects after applyGlobalToAll's setProjects, with global settings cfg
applyGlobalProjects(cfg) ==
    [i \in DOMAIN projects |->
        Merge(projects[i],
              [activeModes |-> cfg.activeModes, bgReplaceColor |-> cfg.bgReplaceColor,
               status |-> IF projects[i].frames > 0 THEN "IDLE" ELSE "ERROR",
               error |-> IF projects[i].frames > 0 THEN "null" ELSE projects[i].error,
               resultBlob |-> 0, progress |-> 0])]

\* the button of the global card, confirmed by the user
applyGlobalToAll(cfg) ==
    /\ ~MicrotaskPending
    /\ Len(projects) # 0
    /\ ~isProcessingAny
    /\ projects' = applyGlobalProjects(cfg)
    /\ UNCHANGED <<isBatchProcessing, abortRef, runs, parsing, uploaded, call>>

\* ---------------------------------------------------------- batch helpers
startBatchProcessing ==
    /\ ~MicrotaskPending
    /\ Len(projects) > 0
    /\ ~isBatchProcessing
    /\ \E i \in DOMAIN projects : projects[i].status = "IDLE"
    /\ ~isProcessingAny
    /\ isBatchProcessing' = TRUE
    /\ abortRef' = FALSE
    /\ UNCHANGED <<projects, runs, parsing, uploaded, call>>

\* history: the calls whose workers have not all returned when Stop is pressed
NoteCancel(rs) ==
    [r \in DOMAIN rs |-> IF rs[r].pc = "workers" THEN [rs[r] EXCEPT !.cancelRequested = TRUE] ELSE rs[r]]

stopBatchProcessingAndReset ==
    /\ ~MicrotaskPending
    /\ Len(projects) > 0
    /\ isBatchProcessing
    /\ isBatchProcessing' = FALSE
    /\ abortRef' = TRUE
    /\ runs' = NoteCancel(runs)
    /\ projects' = [i \in DOMAIN projects |->
                      Merge(projects[i], [status |-> "IDLE", progress |-> 0, resultBlob |-> 0])]
    /\ UNCHANGED <<parsing, uploaded, call>>

stopBatchProcessing ==
    /\ ~MicrotaskPending
    /\ Len(projects) > 0
    /\ isBatchProcessing
    /\ isBatchProcessing' = FALSE
    /\ abortRef' = TRUE
    /\ runs' = NoteCancel(runs)
    /\ UNCHANGED <<projects, parsing, uploaded, call>>

\* ------------------------------------------------- triggerProcessProject
\* the state of a call of triggerProcessProject(project) after line 269: the
\* snapshot of the project it closes over, its queue, result buffer, counter
\* and quota flag, its workers, and where the call itself stands
QueueDescending(n) == [i \in 1..n |-> n - i]

\* line 335: workingFrames.map((frame, index) => ({ frame, index }))
Queue(n) == [i \in 1..n |-> i - 1]

NewRun(project, origin, activeUseAI) ==
    [pid |-> project.id, origin |-> origin,
     frames |-> project.frames, activeModes |-> project.activeModes,
     bgReplaceColor |-> project.bgReplaceColor, activeUseAI |-> activeUseAI,
     queue |-> Queue(project.frames),
     results |-> [i \in 0..(project.frames - 1) |-> NoResult],
     completedCount |-> 0, quotaLimitReached |-> FALSE,
     workers |-> [w \in 1..Min(CONCURRENCY, project.frames) |-> [pc |-> "loop", index |-> -1]],
     pc |-> "workers",
     encoded |-> <<>>, transparentKey |-> "null", outcome |-> "none",
     remoteCalls |-> {}, afterQuota |-> {}, quotaFailed |-> {}, cancelRequested |-> FALSE,
     remoteFailed |-> {}]

triggerProcessProjectResetsFirst(project, origin, activeUseAI) ==
    IF project.frames = 0
    THEN /\ abortRef' = FALSE
         /\ projects' = updateProjectStatus(projects, project.id,
                           [status |-> "ERROR", error |-> "No frames to process."])
         /\ UNCHANGED runs
    ELSE IF project.activeModes = {}
    THEN /\ abortRef' = FALSE
         /\ projects' = updateProjectStatus(projects, project.id,
                           [status |-> "ERROR", error |-> "No modes selected."])
         /\ UNCHANGED runs
    ELSE /\ Len(runs) < MaxRuns
         /\ abortRef' = FALSE
         /\ projects' = updateProjectStatus(projects, project.id,
                           [status |-> "PROCESSING", progress |-> 0, error |-> "null"])
         /\ runs' = Append(runs, NewRun(project, origin, activeUseAI))

\* triggerProcessProject(project) up to the creation of the workers
triggerProcessProject(project, origin, activeUseAI) ==
    IF project.frames = 0
    THEN /\ projects' = updateProjectStatus(projects, project.id,
                           [status |-> "ERROR", error |-> "No frames to process."])
         /\ UNCHANGED <<abortRef, runs>>
    ELSE IF project.activeModes = {}
    THEN /\ projects' = updateProjectStatus(projects, project.id,
                           [status |-> "ERROR", error |-> "No modes selected."])
         /\ UNCHANGED <<abortRef, runs>>
    ELSE /\ Len(runs) < MaxRuns
         /\ abortRef' = FALSE
         /\ projects' = updateProjectStatus(projects, project.id,
                           [status |-> "PROCESSING", progress |-> 0, error |-> "null"])
         /\ runs' = Append(runs, NewRun(project, origin, activeUseAI))

\* the card of project id is selected and its 'Apply to this GIF' button pressed
ApplyToThisGif(id, activeUseAI) ==
    /\ ~MicrotaskPending
    /\ id \in ProjectIds
    /\ ProjectById(id).status \notin {"PROCESSING", "ENCODING"}
    /\ ProjectById(id).activeModes # {}
    /\ triggerProcessProject(ProjectById(id), "manual", activeUseAI)
    /\ UNCHANGED <<isBatchProcessing, parsing, uploaded, call>>

BatchEffectNeverClears(activeUseAI) ==
    /\ ~MicrotaskPending
    /\ isBatchProcessing
    /\ ~isProcessingAny
    /\ nextProject # 0
    /\ triggerProcessProject(projects[nextProject], "batch", activeUseAI)
    /\ UNCHANGED <<isBatchProcessing, parsing, uploaded, call>>

\* the batch scheduler effect
BatchEffect(activeUseAI) ==
    /\ ~MicrotaskPending
    /\ isBatchProcessing
    /\ ~isProcessingAny
    /\ IF nextProject # 0
       THEN /\ triggerProcessProject(projects[nextProject], "batch", activeUseAI)
            /\ UNCHANGED isBatchProcessing
       ELSE /\ isBatchProcessing' = FALSE
            /\ UNCHANGED <<projects, abortRef, runs>>
    /\ UNCHANGED <<parsing, uploaded, call>>

\* the indices of the jobs taken from the queue so far
Started(run) == (0..(run.frames - 1)) \ { run.queue[k] : k \in DOMAIN run.queue }

\* the keywords that make an error message a quota error
QuotaKeywords == {"429", "quota", "exhausted"}

\* a call that has returned (or thrown) and has no worker left running can
\* do nothing more: its closure state is dropped
Finished(run) ==
    /\ run.pc = "done"
    /\ \A w \in DOMAIN run.workers : run.workers[w].pc \in {"exit", "rejected"}

Retire(run) ==
    IF Finished(run)
    THEN [run EXCEPT !.queue = <<>>, !.results = <<>>, !.workers = <<>>, !.completedCount = 0,
                     !.quotaLimitReached = FALSE, !.remoteCalls = {}, !.afterQuota = {},
                     !.quotaFailed = {}, !.cancelRequested = FALSE, !.remoteFailed = {},
                     !.encoded = <<>>,
                     !.transparentKey = "null", !.frames = 0, !.activeModes = {},
                     !.bgReplaceColor = "transparent", !.activeUseAI = FALSE,
                     !.origin = "manual", !.pid = 0, !.outcome = "none"]
    ELSE run

\* ------------------------------------------------------ processSingleFrame
isQuotaOnly429(err) == "429" \in err.words

\* err.message?.includes('429') || ...('quota') || ...('exhausted')
isQuota(err) ==
    "429" \in err.words \/ "quota" \in err.words \/ "exhausted" \in err.words

StoreResultInCompletionOrder(results, index, completedCount, res) ==
    [results EXCEPT ![completedCount] = res]

\* results[index] = processedImageData
StoreResult(results, index, completedCount, res) ==
    [results EXCEPT ![index] = res]

RecordResultNotCounting(r, w, run, index, res) ==
    LET run2 == [run EXCEPT !.results = StoreResult(@, index, run.completedCount, res),
                            !.workers[w] = [pc |-> "loop", index |-> -1]]
    IN /\ runs' = [runs EXCEPT ![r] = Retire(run2)]
       /\ projects' = updateProjectStatus(projects, run.pid,
                         [progress |-> RoundPercent(run2.completedCount, run.frames)])

\* lines 326-332: record the result, count it, report the progress; the
\* worker is back at its await
RecordResult(r, w, run, index, res) ==
    LET run2 == [run EXCEPT !.results = StoreResult(@, index, run.completedCount, res),
                            !.completedCount = @ + 1,
                            !.workers[w] = [pc |-> "loop", index |-> -1]]
    IN /\ runs' = [runs EXCEPT ![r] = Retire(run2)]
       /\ projects' = updateProjectStatus(projects, run.pid,
                         [progress |-> RoundPercent(run2.completedCount, run.frames)])

FallbackRethrows(r, w, run, index, localOk) ==
    /\ runs' = [runs EXCEPT ![r] =
                   Retire([run EXCEPT !.workers[w] = [pc |-> "rejected", index |-> -1]])]
    /\ UNCHANGED projects

\* lines 313-332: the local fallback; processFrameLocal returns or throws
Fallback(r, w, run, index, localOk) ==
    IF localOk
    THEN RecordResult(r, w, run, index, [idx |-> index, by |-> "local"])
    ELSE /\ runs' = [runs EXCEPT ![r] =
                            Retire([run EXCEPT !.workers[w] = [pc |-> "rejected", index |-> -1]])]
         /\ UNCHANGED projects

QuotaFlagAfterAnyFailure(flag, out) == TRUE

\* lines 304-310: the catch block sets quotaLimitReached on an error that
\* isQuota accepts (another exception of the try block has no such message)
QuotaFlagAfter(flag, out) == flag \/ (out.kind = "error" /\ isQuota(out))

TryAIIgnoringQuota(run) == run.activeUseAI

TryAISharedQuotaFlag(run) ==
    run.activeUseAI /\ ~\E r \in DOMAIN runs : runs[r].quotaLimitReached

\* if (activeUseAI && !quotaLimitReached)
TryAI(run) == run.activeUseAI /\ ~run.quotaLimitReached

\* one turn of a worker's while loop: the loop test, queue.shift() and
\* processSingleFrame up to its first await or, on the local path, to its end
WorkerLoop(r, w, localOk) ==
    /\ r \in DOMAIN runs
    /\ w \in WorkerIds(r)
    /\ runs[r].workers[w].pc = "loop"
    /\ LET run == runs[r] IN
       IF run.queue # <<>> /\ ~abortRef
       THEN LET index == Head(run.queue)
                run1 == [run EXCEPT !.queue = Tail(@),
                                    !.afterQuota = IF run.quotaLimitReached THEN @ \cup {index} ELSE @]
            IN IF abortRef
               THEN /\ runs' = [runs EXCEPT ![r] = run1]
                    /\ UNCHANGED projects
               ELSE IF TryAI(run)
               THEN /\ runs' = [runs EXCEPT ![r] =
                                   [run1 EXCEPT !.workers[w] = [pc |-> "remote", index |-> index]]]
                    /\ UNCHANGED projects
               ELSE Fallback(r, w, run1, index, localOk)
       ELSE /\ runs' = [runs EXCEPT ![r] =
                            Retire([run EXCEPT !.workers[w] = [pc |-> "exit", index |-> -1]])]
            /\ UNCHANGED projects
    /\ UNCHANGED <<isBatchProcessing, abortRef, parsing, uploaded, call>>

NeedsPostProcessAnyReplacement(run) == "remove-bg" \in run.activeModes

\* line 296: the remote image is post-processed
NeedsPostProcess(run) == "remove-bg" \in run.activeModes /\ run.bgReplaceColor # "transparent"

\* lines 297-300: the arguments of the call of processFrameLocal on the remote
\* image
PostProcessCall(run) ==
    [modes |-> {"remove-bg"},
     config |-> [recolorPairs |-> <<>>, removeBgColor |-> "#00FF00",
                 bgReplacementColor |-> run.bgReplaceColor]]

\* the remote path of a job settles (the stagger timer, imageDataToBase64,
\* editFrameWithGemini, the read-back of the image): lines 280-332
RemoteDone(r, w, out, postOk, localOk) ==
    /\ ~MicrotaskPending
    /\ r \in DOMAIN runs
    /\ w \in WorkerIds(r)
    /\ runs[r].workers[w].pc = "remote"
    /\ LET run == runs[r]
           index == run.workers[w].index
           solid == NeedsPostProcess(run)
           run1 == [run EXCEPT !.remoteCalls = IF out.kind = "nobase64" THEN @ ELSE @ \cup {index},
                               !.quotaFailed = IF out.kind = "error" /\ out.words \cap QuotaKeywords # {}
                                               THEN @ \cup {[index |-> index, started |-> Started(run)]}
                                               ELSE @]
           run2 == [run1 EXCEPT !.quotaLimitReached = QuotaFlagAfter(@, out),
                                !.remoteFailed = @ \cup {index}]
       IN IF out.kind = "undecodable"
          THEN /\ runs' = [runs EXCEPT ![r] = [run1 EXCEPT !.workers[w].pc = "hung"]]
               /\ UNCHANGED projects
          ELSE IF out.kind = "image" /\ ~solid
          THEN RecordResult(r, w, run1, index, [idx |-> index, by |-> "remote"])
          ELSE IF out.kind = "image" /\ postOk
          THEN RecordResult(r, w, run1, index,
                            [idx |-> index, by |-> "remote+removeBg", post |-> PostProcessCall(run)])
          ELSE Fallback(r, w, run2, index, localOk)
    /\ UNCHANGED <<isBatchProcessing, abortRef, parsing, uploaded, call>>

\* ------------------------------------------ the end of triggerProcessProject
\* results.filter(f => !!f)
FilterResults(results) ==
    LET n == Cardinality(DOMAIN results)
        F[k \in 0..n] ==
            IF k = 0 THEN <<>>
            ELSE IF results[k - 1] = NoResult THEN F[k - 1] ELSE Append(F[k - 1], results[k - 1])
    IN F[n]

TransparentKeyIgnoringQuota(run) ==
    IF "remove-bg" \in run.activeModes /\ run.bgReplaceColor = "transparent"
    THEN IF run.activeUseAI THEN "0x00FF00" ELSE "null"
    ELSE "null"

\* lines 353-357
TransparentKey(run) ==
    IF "remove-bg" \in run.activeModes /\ run.bgReplaceColor = "transparent"
    THEN IF run.activeUseAI /\ ~run.quotaLimitReached THEN "0x00FF00" ELSE "null"
    ELSE "null"

\* line 361: workingFrames.map(f => f.delay), each delay written as the index
\* of the frame it belongs to
Delays(run) == [i \in 1..run.frames |-> i - 1]

JoinResolveWithoutCancelTest(r) ==
    /\ r \in DOMAIN runs
    /\ runs[r].pc = "workers"
    /\ AllWorkersExited(r)
    /\ projects' = updateProjectStatus(projects, runs[r].pid, [status |-> "ENCODING"])
    /\ runs' = [runs EXCEPT ![r].pc = "encoding",
                            ![r].encoded = FilterResults(runs[r].results),
                            ![r].transparentKey = TransparentKey(runs[r])]
    /\ UNCHANGED <<isBatchProcessing, abortRef, parsing, uploaded, call>>

\* await Promise.all(workers) resolves: lines 345-363 up to the await of createGif
JoinResolve(r) ==
    /\ r \in DOMAIN runs
    /\ runs[r].pc = "workers"
    /\ AllWorkersExited(r)
    /\ IF abortRef
       THEN /\ projects' = updateProjectStatus(projects, runs[r].pid,
                              [status |-> "IDLE", progress |-> 0])
            /\ runs' = [runs EXCEPT ![r] = Retire([@ EXCEPT !.pc = "done", !.outcome = "cancelled"])]
       ELSE /\ projects' = updateProjectStatus(projects, runs[r].pid, [status |-> "ENCODING"])
            /\ runs' = [runs EXCEPT ![r].pc = "encoding",
                                    ![r].encoded = FilterResults(runs[r].results),
                                    ![r].transparentKey = TransparentKey(runs[r])]
    /\ UNCHANGED <<isBatchProcessing, abortRef, parsing, uploaded, call>>

JoinRejectSilent(r) ==
    /\ r \in DOMAIN runs
    /\ runs[r].pc = "workers"
    /\ SomeWorkerRejected(r)
    /\ runs' = [runs EXCEPT ![r] = Retire([@ EXCEPT !.pc = "done", !.outcome = "failed"])]
    /\ UNCHANGED <<projects, isBatchProcessing, abortRef, parsing, uploaded, call>>

\* await Promise.all(workers) rejects: the catch block
JoinReject(r) ==
    /\ r \in DOMAIN runs
    /\ runs[r].pc = "workers"
    /\ SomeWorkerRejected(r)
    /\ projects' = updateProjectStatus(projects, runs[r].pid,
                      [status |-> "ERROR", error |-> "Processing failed."])
    /\ runs' = [runs EXCEPT ![r] = Retire([@ EXCEPT !.pc = "done", !.outcome = "failed"])]
    /\ UNCHANGED <<isBatchProcessing, abortRef, parsing, uploaded, call>>

\* createGif settles: line 364, or the catch block
EncodeDone(r, ok) ==
    /\ ~MicrotaskPending
    /\ r \in DOMAIN runs
    /\ runs[r].pc = "encoding"
    /\ IF ok
       THEN /\ projects' = updateProjectStatus(projects, runs[r].pid,
                              [status |-> "COMPLETED", resultBlob |-> r])
            /\ runs' = [runs EXCEPT ![r] = Retire([@ EXCEPT !.pc = "done", !.outcome = "completed"])]
       ELSE /\ projects' = updateProjectStatus(projects, runs[r].pid,
                              [status |-> "ERROR", error |-> "Processing failed."])
            /\ runs' = [runs EXCEPT ![r] = Retire([@ EXCEPT !.pc = "done", !.outcome = "encodeFailed"])]
    /\ UNCHANGED <<isBatchProcessing, abortRef, parsing, uploaded, call>>

\* -------------------------------------------------------- specifications
\* Spec: the whole editor from the empty project list, with the global
\* settings left at their initial value.  The environment of the runs is the
\* usual one: the remote edit returns an image or fails with a quota error,
\* local processing succeeds, the encoder succeeds or fails.
BatchConfigs ==
    { cfg \in EditorConfig : cfg.bgReplaceColor = "transparent" /\ cfg.activeModes = {"remove-bg"} }

BatchOutcomes ==
    { out \in RemoteOutcomes : out.kind = "image" \/ (out.kind = "error" /\ out.status = 429 /\ out.words # {}) }

Next ==
    \/ \E cfg \in BatchConfigs : handleFileUpload(cfg)
    \/ \E id \in 1..MaxProjects, n \in 0..MaxFrames : ParseDone(id, n)
    \/ \E id \in 1..MaxProjects : ParseFail(id)
    \/ \E id \in 1..MaxProjects : removeProject(id)
    \/ \E cfg \in BatchConfigs : applyGlobalToAll(cfg)
    \/ startBatchProcessing
    \/ stopBatchProcessing
    \/ \E id \in 1..MaxProjects, ai \in BOOLEAN : ApplyToThisGif(id, ai)
    \/ \E ai \in BOOLEAN : BatchEffect(ai)
    \/ \E r \in DOMAIN runs, w \in 1..CONCURRENCY : WorkerLoop(r, w, TRUE)
    \/ \E r \in DOMAIN runs, w \in 1..CONCURRENCY, out \in BatchOutcomes : RemoteDone(r, w, out, TRUE, TRUE)
    \/ \E r \in DOMAIN runs : JoinResolve(r)
    \/ \E r \in DOMAIN runs, ok \in BOOLEAN : EncodeDone(r, ok)

Spec == Init /\ [][Next]_vars

\* RunSpec: one parsed project and its runs, with every outcome of the remote
\* path, of local processing and of the encoder.  The first run is started
\* by the button or by the batch, a later one by the batch after a stop.
ParsedProject(id, n, cfg) ==
    [id |-> id, frames |-> n,
     activeModes |-> cfg.activeModes, bgReplaceColor |-> cfg.bgReplaceColor,
     status |-> "IDLE", progress |-> 0, error |-> "null", resultBlob |-> 0]

RunInit ==
    /\ \E n \in 0..MaxRunFrames, cfg \in EditorConfig : projects = <<ParsedProject(1, n, cfg)>>
    /\ isBatchProcessing = FALSE
    /\ abortRef = FALSE
    /\ runs = <<>>
    /\ parsing = {}
    /\ uploaded = 1
    /\ call = NoCall

RunNext ==
    \/ startBatchProcessing
    \/ stopBatchProcessing
    \/ \E ai \in BOOLEAN : runs = <<>> /\ ApplyToThisGif(1, ai)
    \/ \E ai \in BOOLEAN : BatchEffect(ai)
    \/ \E r \in DOMAIN runs, w \in 1..CONCURRENCY, localOk \in BOOLEAN : WorkerLoop(r, w, localOk)
    \/ \E r \in DOMAIN runs, w \in 1..CONCURRENCY, out \in RemoteOutcomes,
          postOk \in BOOLEAN, localOk \in BOOLEAN : RemoteDone(r, w, out, postOk, localOk)
    \/ \E r \in DOMAIN runs : JoinResolve(r)
    \/ \E r \in DOMAIN runs : JoinReject(r)
    \/ \E r \in DOMAIN runs, ok \in BOOLEAN : EncodeDone(r, ok)

RunSpec == RunInit /\ [][RunNext]_vars

\* BatchSpec: a list of parsed projects, each without a frame or with
\* MaxFrames frames, and the batch buttons as the only way to start a run,
\* otherwise as Spec
BatchInit ==
    /\ \E fs \in [1..MaxProjects -> {0, MaxFrames}], cfg \in BatchConfigs :
          projects = [i \in 1..MaxProjects |-> ParsedProject(i, fs[i], cfg)]
    /\ isBatchProcessing = FALSE
    /\ abortRef = FALSE
    /\ runs = <<>>
    /\ parsing = {}
    /\ uploaded = MaxProjects
    /\ call = NoCall

BatchNext ==
    \/ \E id \in 1..MaxProjects : removeProject(id)
    \/ startBatchProcessing
    \/ stopBatchProcessing
    \/ \E ai \in BOOLEAN : BatchEffect(ai)
    \/ \E r \in DOMAIN runs, w \in 1..CONCURRENCY : WorkerLoop(r, w, TRUE)
    \/ \E r \in DOMAIN runs, w \in 1..CONCURRENCY, out \in BatchOutcomes : RemoteDone(r, w, out, TRUE, TRUE)
    \/ \E r \in DOMAIN runs : JoinResolve(r)
    \/ \E r \in DOMAIN runs, ok \in BOOLEAN : EncodeDone(r, ok)

BatchSpec == BatchInit /\ [][BatchNext]_vars

\* FairSpec: a batch that is left alone (nobody presses Stop).  The effect
\* runs after every render, a started worker goes on, the remote call and the
\* encoder settle.
FairNext ==
    \/ \E id \in 1..MaxProjects : removeProject(id)
    \/ startBatchProcessing
    \/ \E ai \in BOOLEAN : BatchEffect(ai)
    \/ \E r \in DOMAIN runs, w \in 1..CONCURRENCY : WorkerLoop(r, w, TRUE)
    \/ \E r \in DOMAIN runs, w \in 1..CONCURRENCY, out \in BatchOutcomes : RemoteDone(r, w, out, TRUE, TRUE)
    \/ \E r \in DOMAIN runs : JoinResolve(r)
    \/ \E r \in DOMAIN runs, ok \in BOOLEAN : EncodeDone(r, ok)

\* a step of the program or of its environment that the event loop has ready
ProgramStep ==
    \/ \E ai \in BOOLEAN : BatchEffect(ai)
    \/ \E r \in DOMAIN runs, w \in 1..CONCURRENCY : WorkerLoop(r, w, TRUE)
    \/ \E r \in DOMAIN runs, w \in 1..CONCURRENCY, out \in BatchOutcomes : RemoteDone(r, w, out, TRUE, TRUE)
    \/ \E r \in DOMAIN runs : JoinResolve(r)
    \/ \E r \in DOMAIN runs, ok \in BOOLEAN : EncodeDone(r, ok)

\* the event loop does not idle while a step is ready
Fairness == WF_vars(ProgramStep)

FairSpec == BatchInit /\ [][FairNext]_vars /\ Fairness

\* CancelSpec: two parsed projects, the second of one frame, and the buttons
\* that start and stop runs
CancelInit ==
    /\ \E n \in 1..MaxRunFrames, cfg \in BatchConfigs :
          projects = <<ParsedProject(1, n, cfg), ParsedProject(2, 1, cfg)>>
    /\ isBatchProcessing = FALSE
    /\ abortRef = FALSE
    /\ runs = <<>>
    /\ parsing = {}
    /\ uploaded = 2
    /\ call = NoCall

CancelNext ==
    \/ startBatchProcessing
    \/ stopBatchProcessing
    \/ \E id \in 1..2, ai \in BOOLEAN : ApplyToThisGif(id, ai)
    \/ \E ai \in BOOLEAN : BatchEffect(ai)
    \/ \E r \in DOMAIN runs, w \in 1..CONCURRENCY : WorkerLoop(r, w, TRUE)
    \/ \E r \in DOMAIN runs, w \in 1..CONCURRENCY, out \in BatchOutcomes : RemoteDone(r, w, out, TRUE, TRUE)
    \/ \E r \in DOMAIN runs : JoinResolve(r)
    \/ \E r \in DOMAIN runs, ok \in BOOLEAN : EncodeDone(r, ok)

CancelSpec == CancelInit /\ [][CancelNext]_vars

\* RerunSpec: one parsed project whose button can be pressed again as soon
\* as the project is neither PROCESSING nor ENCODING; local processing and
\* the encoder can fail
RerunInit ==
    /\ \E n \in 1..MaxRunFrames, cfg \in BatchConfigs : projects = <<ParsedProject(1, n, cfg)>>
    /\ isBatchProcessing = FALSE
    /\ abortRef = FALSE
    /\ runs = <<>>
    /\ parsing = {}
    /\ uploaded = 1
    /\ call = NoCall

RerunNext ==
    \/ \E ai \in BOOLEAN : ApplyToThisGif(1, ai)
    \/ \E r \in DOMAIN runs, w \in 1..CONCURRENCY, localOk \in BOOLEAN : WorkerLoop(r, w, localOk)
    \/ \E r \in DOMAIN runs, w \in 1..CONCURRENCY, out \in BatchOutcomes, localOk \in BOOLEAN :
          RemoteDone(r, w, out, TRUE, localOk)
    \/ \E r \in DOMAIN runs : JoinResolve(r)
    \/ \E r \in DOMAIN runs : JoinReject(r)
    \/ \E r \in DOMAIN runs, ok \in BOOLEAN : EncodeDone(r, ok)

RerunSpec == RerunInit /\ [][RerunNext]_vars

\* ResultSpec: one parsed project, without a frame or with MaxFrames frames,
\* its button, the button of the global card and the batch buttons; local
\* processing and the encoder can fail
ResultInit ==
    /\ \E n \in {0, MaxFrames}, cfg \in BatchConfigs : projects = <<ParsedProject(1, n, cfg)>>
    /\ isBatchProcessing = FALSE
    /\ abortRef = FALSE
    /\ runs = <<>>
    /\ parsing = {}
    /\ uploaded = 1
    /\ call = NoCall

ResultNext ==
    \/ \E cfg \in BatchConfigs : applyGlobalToAll(cfg)
    \/ startBatchProcessing
    \/ stopBatchProcessing
    \/ \E ai \in BOOLEAN : ApplyToThisGif(1, ai)
    \/ \E ai \in BOOLEAN : BatchEffect(ai)
    \/ \E r \in DOMAIN runs, w \in 1..CONCURRENCY, localOk \in BOOLEAN : WorkerLoop(r, w, localOk)
    \/ \E r \in DOMAIN runs, w \in 1..CONCURRENCY, out \in BatchOutcomes, localOk \in BOOLEAN :
          RemoteDone(r, w, out, TRUE, localOk)
    \/ \E r \in DOMAIN runs : JoinResolve(r)
    \/ \E r \in DOMAIN runs : JoinReject(r)
    \/ \E r \in DOMAIN runs, ok \in BOOLEAN : EncodeDone(r, ok)

ResultSpec == ResultInit /\ [][ResultNext]_vars

\* RemoteSpec: one parsed project and its button, with every outcome of the
\* remote path; local processing succeeds
RemoteConfigs ==
    EditorConfig \cup { [activeModes |-> {"recolor", "remove-bg"}, bgReplaceColor |-> "#FFFFFF"] }

RemoteInit ==
    /\ \E n \in 0..MaxRunFrames, cfg \in RemoteConfigs : projects = <<ParsedProject(1, n, cfg)>>
    /\ isBatchProcessing = FALSE
    /\ abortRef = FALSE
    /\ runs = <<>>
    /\ parsing = {}
    /\ uploaded = 1
    /\ call = NoCall

RemoteNext ==
    \/ \E ai \in BOOLEAN : ApplyToThisGif(1, ai)
    \/ \E r \in DOMAIN runs, w \in 1..CONCURRENCY : WorkerLoop(r, w, TRUE)
    \/ \E r \in DOMAIN runs, w \in 1..CONCURRENCY, out \in RemoteOutcomes \cup {Undecodable},
          postOk \in BOOLEAN : RemoteDone(r, w, out, postOk, TRUE)
    \/ \E r \in DOMAIN runs : JoinResolve(r)
    \/ \E r \in DOMAIN runs, ok \in BOOLEAN : EncodeDone(r, ok)

RemoteSpec == RemoteInit /\ [][RemoteNext]_vars

\* FairRemoteSpec: RemoteSpec in which the event loop does not idle while a
\* worker, a settled remote path or the encoder has a step ready
RemoteStep ==
    \/ \E r \in DOMAIN runs, w \in 1..CONCURRENCY : WorkerLoop(r, w, TRUE)
    \/ \E r \in DOMAIN runs, w \in 1..CONCURRENCY, out \in RemoteOutcomes \cup {Undecodable},
          postOk \in BOOLEAN : RemoteDone(r, w, out, postOk, TRUE)
    \/ \E r \in DOMAIN runs : JoinResolve(r)
    \/ \E r \in DOMAIN runs, ok \in BOOLEAN : EncodeDone(r, ok)

FairRemoteSpec == RemoteInit /\ [][RemoteNext]_vars /\ WF_vars(RemoteStep)

\* ------------------------------------------------- services/geminiService
editorVars == <<projects, isBatchProcessing, abortRef, runs, parsing, uploaded>>

\* generateWithRetry(fn, retries = 3, baseDelay = 2000)
Retries == 3

BaseDelay == 2000

\* values of Math.random() * 1000, in ms
Jitters == {0, 500, 999}

Pow2(k) == IF k = 0 THEN 1 ELSE IF k = 1 THEN 2 ELSE IF k = 2 THEN 4 ELSE 8

\* error.status === 429 || error.message?.includes('429') || ...
isQuotaError(err) ==
    err.status = 429 \/ "429" \in err.words \/ "quota" \in err.words \/ "exhausted" \in err.words

ShouldRetryAnyError(retries, err) == retries > 0

\* if (retries > 0 && isQuotaError)
ShouldRetry(retries, err) == retries > 0 /\ isQuotaError(err)

delayLinear(retries, jitter) == BaseDelay * (4 - retries) + jitter

\* line 23: baseDelay * Math.pow(2, 3 - retries) + (Math.random() * 1000)
delay(retries, jitter) == BaseDelay * Pow2(3 - retries) + jitter

\* what one call of fn does: it returns the image data or throws
FnOutcomes == { [kind |-> "data", status |-> 0, words |-> {}] } \cup
              { [kind |-> "error", status |-> e.status, words |-> e.words] : e \in RemoteErrors }

\* an invocation of editFrameWithGemini that has not started: the calls of
\* fn made so far with their outcomes, the waits made so far, the retries left
NewInvocation ==
    [fn |-> "editFrameWithGemini", pc |-> "start", retries |-> Retries,
     attempts |-> <<>>, waits |-> <<>>, error |-> "none"]

\* lines 37-53: getClient throws without an API key, else generateWithRetry
\* makes its first call of fn
editFrameWithGemini(hasKey) ==
    /\ call.fn = "editFrameWithGemini"
    /\ call.pc = "start"
    /\ call' = IF hasKey THEN [call EXCEPT !.pc = "calling"]
               ELSE [call EXCEPT !.pc = "thrown", !.error = "API Key not found"]
    /\ UNCHANGED editorVars

\* lines 13-29: the call of fn settles
generateWithRetry(out, jitter) ==
    /\ call.fn = "editFrameWithGemini"
    /\ call.pc = "calling"
    /\ LET c == [call EXCEPT !.attempts = Append(@, out)] IN
       call' = IF out.kind = "data" THEN [c EXCEPT !.pc = "returned"]
               ELSE IF ShouldRetry(call.retries, out)
               THEN [c EXCEPT !.pc = "waiting",
                              !.waits = Append(@, delay(call.retries, jitter))]
               ELSE [c EXCEPT !.pc = "thrown", !.error = out]
    /\ UNCHANGED editorVars

\* line 25-26: the wait is over, generateWithRetry(fn, retries - 1, baseDelay)
WaitDone ==
    /\ call.fn = "editFrameWithGemini"
    /\ call.pc = "waiting"
    /\ call' = [call EXCEPT !.pc = "calling", !.retries = @ - 1]
    /\ UNCHANGED editorVars

\* RetrySpec: one invocation of editFrameWithGemini
RetryInit ==
    /\ projects = <<>>
    /\ isBatchProcessing = FALSE
    /\ abortRef = FALSE
    /\ runs = <<>>
    /\ parsing = {}
    /\ uploaded = 0
    /\ call = NewInvocation

RetryNext ==
    \/ \E hasKey \in BOOLEAN : editFrameWithGemini(hasKey)
    \/ \E out \in FnOutcomes, jitter \in Jitters : generateWithRetry(out, jitter)
    \/ WaitDone

RetrySpec == RetryInit /\ [][RetryNext]_vars

\* ---------------------------------------------------- services/gifService
\* the pixels of the frames given to processFrameLocal: bytes r, g, b, a.
\* Their distances to the key colours of the model are whole numbers.
LocalPixels ==
    { [r |-> c[1], g |-> c[2], b |-> c[3], a |-> a] :
        c \in { <<0, 255, 0>>, <<0, 200, 0>>, <<0, 195, 0>>, <<0, 185, 0>>, <<0, 175, 0>>,
                <<255, 255, 255>>, <<255, 0, 0>> },
        a \in {0, 128, 255} }

\* the result of hexToRgb when the string is not a hex colour (null)
NoRgb == [r |-> -1, g |-> -1, b |-> -1]

\* hexToRgb on the colour strings of the model
hexToRgb(hex) ==
    IF hex = "#00FF00" THEN [r |-> 0, g |-> 255, b |-> 0]
    ELSE IF hex = "#FFFFFF" THEN [r |-> 255, g |-> 255, b |-> 255]
    ELSE IF hex = "#FF0000" THEN [r |-> 255, g |-> 0, b |-> 0]
    ELSE IF hex = "#0000FF" THEN [r |-> 0, g |-> 0, b |-> 255]
    ELSE IF hex = "#C80000" THEN [r |-> 200, g |-> 0, b |-> 0]
    ELSE IF hex = "#CD0000" THEN [r |-> 205, g |-> 0, b |-> 0]
    ELSE IF hex = "#808080" THEN [r |-> 128, g |-> 128, b |-> 128]
    ELSE NoRgb

\* the square of the distance of lines 255-259
Dist2(p, c) == (p.r - c.r) * (p.r - c.r) + (p.g - c.g) * (p.g - c.g) + (p.b - c.b) * (p.b - c.b)

\* Math.sqrt of a square
Root(d2) == CHOOSE d \in 0..442 : d * d = d2

\* the byte a Uint8ClampedArray stores for num / den, den > 0: clamped to
\* 0..255 and rounded to the nearest integer, a tie to the even one
ToUint8Clamp(num, den) ==
    LET q == num \div den
        rem == num % den
        rounded == IF 2 * rem < den THEN q
                   ELSE IF 2 * rem > den THEN q + 1
                   ELSE IF q % 2 = 0 THEN q ELSE q + 1
    IN IF rounded < 0 THEN 0 ELSE IF rounded > 255 THEN 255 ELSE rounded

\* lines 247-277 for one pixel with a feather band of 10 instead of 20
removeBgPixelNarrowBand(p, bgRGB, replaceRGB) ==
    IF p.a = 0 THEN p
    ELSE IF Dist2(p, bgRGB) < 60 * 60
    THEN IF replaceRGB # NoRgb
         THEN [r |-> replaceRGB.r, g |-> replaceRGB.g, b |-> replaceRGB.b, a |-> 255]
         ELSE [p EXCEPT !.a = 0]
    ELSE IF Dist2(p, bgRGB) < 70 * 70 /\ replaceRGB = NoRgb
    THEN [p EXCEPT !.a = ToUint8Clamp(p.a * (Root(Dist2(p, bgRGB)) - 60), 10)]
    ELSE p

\* lines 247-277 for one pixel, tolerance 60
removeBgPixel(p, bgRGB, replaceRGB) ==
    IF p.a = 0 THEN p
    ELSE IF Dist2(p, bgRGB) < 60 * 60
    THEN IF replaceRGB # NoRgb
         THEN [r |-> replaceRGB.r, g |-> replaceRGB.g, b |-> replaceRGB.b, a |-> 255]
         ELSE [p EXCEPT !.a = 0]
    ELSE IF Dist2(p, bgRGB) < 80 * 80 /\ replaceRGB = NoRgb
    THEN [p EXCEPT !.a = ToUint8Clamp(p.a * (Root(Dist2(p, bgRGB)) - 60), 20)]
    ELSE p

\* lines 238-278
removeBg(data, config) ==
    LET bgHex == IF config.removeBgColor = "" THEN "#00FF00" ELSE config.removeBgColor
        bgRGB == IF hexToRgb(bgHex) = NoRgb THEN [r |-> 0, g |-> 255, b |-> 0] ELSE hexToRgb(bgHex)
        replaceRGB == IF config.bgReplacementColor = "null" THEN NoRgb
                      ELSE hexToRgb(config.bgReplacementColor)
    IN [k \in DOMAIN data |-> removeBgPixel(data[k], bgRGB, replaceRGB)]

\* x / d rounded to the nearest integer, x >= 0
RoundDiv(x, d) == (2 * x + d) \div (2 * d)

\* ctx.putImageData followed by ctx.getImageData: the canvas either keeps the
\* bytes or keeps premultiplied colour, which loses colour where alpha < 255
CanvasRoundTrip(data, exact) ==
    [k \in DOMAIN data |->
        LET p == data[k] IN
        IF exact \/ p.a = 255 THEN p
        ELSE IF p.a = 0 THEN [r |-> 0, g |-> 0, b |-> 0, a |-> 0]
        ELSE [r |-> Min(255, RoundDiv(RoundDiv(p.r * p.a, 255) * 255, p.a)),
              g |-> Min(255, RoundDiv(RoundDiv(p.g * p.a, 255) * 255, p.a)),
              b |-> Min(255, RoundDiv(RoundDiv(p.b * p.a, 255) * 255, p.a)),
              a |-> p.a]]

\* Math.max and Math.min of three numbers
Max3(a, b, c) == IF a >= b /\ a >= c THEN a ELSE IF b >= c THEN b ELSE c

Min3(a, b, c) == IF a <= b /\ a <= c THEN a ELSE IF b <= c THEN b ELSE c

\* rgbToHsl(r, g, b) in exact fractions: h = hn / hd, s = sn / sd and
\* l = L / 510, where L is max + min of the bytes
rgbToHsl(r, g, b) ==
    LET max == Max3(r, g, b)
        min == Min3(r, g, b)
        d == max - min
        L == max + min
    IN IF max = min THEN [hn |-> 0, hd |-> 1, sn |-> 0, sd |-> 1, L |-> L]
       ELSE [hn |-> IF max = r THEN (g - b) + (IF g < b THEN 6 * d ELSE 0)
                    ELSE IF max = g THEN (b - r) + 2 * d
                    ELSE (r - g) + 4 * d,
             hd |-> 6 * d,
             sn |-> d,
             sd |-> IF L > 255 THEN 510 - L ELSE L,
             L |-> L]

\* Math.round(255 * hue2rgb(p, q, t)) with 255 p = Pn / den, 255 (q - p) =
\* Dn / den and t = tn / td
hue2rgb(Pn, Dn, den, tn, td) ==
    LET t1 == IF tn < 0 THEN tn + td ELSE tn
        t == IF t1 > td THEN t1 - td ELSE t1
    IN IF 6 * t < td THEN RoundDiv(Pn * td + Dn * 6 * t, den * td)
       ELSE IF 2 * t < td THEN RoundDiv(Pn + Dn, den)
       ELSE IF 3 * t < 2 * td THEN RoundDiv(Pn * td + Dn * (4 * td - 6 * t), den * td)
       ELSE RoundDiv(Pn, den)

\* hslToRgb(h, s, l) with h = hn / hd, s = sn / sd, l = L / 510
hslToRgb(hn, hd, sn, sd, L) ==
    IF sn = 0
    THEN [r |-> RoundDiv(L, 2), g |-> RoundDiv(L, 2), b |-> RoundDiv(L, 2)]
    ELSE LET Qn == IF L < 255 THEN L * (sd + sn) ELSE L * sd + 510 * sn - L * sn
             den == 2 * sd
             Pn == 2 * L * sd - Qn
             Dn == Qn - Pn
             td == 3 * hd
         IN [r |-> hue2rgb(Pn, Dn, den, 3 * hn + hd, td),
             g |-> hue2rgb(Pn, Dn, den, 3 * hn, td),
             b |-> hue2rgb(Pn, Dn, den, 3 * hn - hd, td)]

\* hexToRgb(hex) || {r:0,g:0,b:0}
RgbOrBlack(hex) == IF hexToRgb(hex) = NoRgb THEN [r |-> 0, g |-> 0, b |-> 0] ELSE hexToRgb(hex)

\* lines 193-198: the rules with their colours parsed
processedPairs(recolorPairs) ==
    [i \in DOMAIN recolorPairs |->
        LET targetRGB == RgbOrBlack(recolorPairs[i].target) IN
        [originalRGB |-> RgbOrBlack(recolorPairs[i].original),
         targetHSL |-> rgbToHsl(targetRGB.r, targetRGB.g, targetRGB.b)]]

\* lines 207-218: the index of the rule matched by pixel p, 0 for none, looking
\* at the rules from index i on with the smallest distance so far squared
RECURSIVE bestMatch(_, _, _, _, _)
bestMatch(p, pairs, i, minDistance2, best) ==
    IF i > Len(pairs) THEN best
    ELSE IF Dist2(p, pairs[i].originalRGB) < minDistance2
    THEN bestMatch(p, pairs, i + 1, Dist2(p, pairs[i].originalRGB), i)
    ELSE bestMatch(p, pairs, i + 1, minDistance2, best)

\* lines 222-232 with the lightness of the target instead of the pixel's
NewRGBTargetLightness(p, targetHSL) ==
    hslToRgb(targetHSL.hn, targetHSL.hd, targetHSL.sn, targetHSL.sd, targetHSL.L)

\* lines 222-232: hue and saturation of the target, lightness of the pixel
NewRGB(p, targetHSL) ==
    hslToRgb(targetHSL.hn, targetHSL.hd, targetHSL.sn, targetHSL.sd, rgbToHsl(p.r, p.g, p.b).L)

\* the first rule whose source is nearer than the threshold, 0 for none
matchFirst(threshold, p, pairs) ==
    IF \E i \in DOMAIN pairs : Dist2(p, pairs[i].originalRGB) < threshold * threshold
    THEN CHOOSE i \in DOMAIN pairs :
            /\ Dist2(p, pairs[i].originalRGB) < threshold * threshold
            /\ \A j \in 1..(i - 1) : Dist2(p, pairs[j].originalRGB) >= threshold * threshold
    ELSE 0

\* lines 204-218: let minDistance = threshold; let match = null; the loop
\* over the rules
match(threshold, p, pairs) == bestMatch(p, pairs, 1, threshold * threshold, 0)

\* lines 203-233 for one pixel with a threshold instead of 60
recolorPixelWith(threshold, p, pairs) ==
    IF p.a < 10 THEN p
    ELSE LET m == match(threshold, p, pairs) IN
         IF m = 0 THEN p
         ELSE LET newRGB == NewRGB(p, pairs[m].targetHSL) IN
              [r |-> newRGB.r, g |-> newRGB.g, b |-> newRGB.b, a |-> p.a]

\* lines 203-233 for one pixel with threshold 61
recolorPixelWide(p, pairs) == recolorPixelWith(61, p, pairs)

\* lines 203-233 for one pixel, threshold 60
recolorPixel(p, pairs) == recolorPixelWith(60, p, pairs)

\* lines 192-235
recolor(data, config) ==
    [k \in DOMAIN data |-> recolorPixel(data[k], processedPairs(config.recolorPairs))]

\* processFrameLocal with the background removed from the pixels of the input
\* instead of the recolored ones
processFrameLocalKeysInput(hasCtx, exact, imageData, modes, config) ==
    IF ~hasCtx
    THEN [kind |-> "returned", data |-> imageData, isInput |-> TRUE,
          recolored |-> imageData, keyed |-> imageData]
    ELSE LET recolored == IF "recolor" \in modes /\ Len(config.recolorPairs) > 0
                          THEN recolor(imageData, config) ELSE imageData
             removed == IF "remove-bg" \in modes THEN removeBg(imageData, config) ELSE imageData
             keyed == [k \in DOMAIN imageData |->
                          IF removed[k] = imageData[k] THEN recolored[k] ELSE removed[k]]
         IN [kind |-> "returned", data |-> CanvasRoundTrip(keyed, exact), isInput |-> FALSE,
             recolored |-> recolored, keyed |-> keyed]

\* processFrameLocal(imageData, modes, config) with hasCtx telling whether
\* canvas.getContext('2d') gives a context.  The result tells whether the
\* returned object is the input itself, and keeps the bytes after lines
\* 192-235 (recolored) and after lines 238-278 (keyed).
processFrameLocal(hasCtx, exact, imageData, modes, config) ==
    IF ~hasCtx
    THEN [kind |-> "returned", data |-> imageData, isInput |-> TRUE,
          recolored |-> imageData, keyed |-> imageData]
    ELSE LET recolored == IF "recolor" \in modes /\ Len(config.recolorPairs) > 0
                          THEN recolor(imageData, config) ELSE imageData
             keyed == IF "remove-bg" \in modes THEN removeBg(recolored, config) ELSE recolored
         IN [kind |-> "returned", data |-> CanvasRoundTrip(keyed, exact), isInput |-> FALSE,
             recolored |-> recolored, keyed |-> keyed]

\* the configurations given to processFrameLocal for background removal
ProcessingConfig ==
    [recolorPairs : {<<>>},
     removeBgColor : {"#00FF00", "#FFFFFF", "", "green"},
     bgReplacementColor : {"null", "#FFFFFF", "#FFF"}]

\* a call of processFrameLocal about to be made
NewLocalCall(imageData, modes, config) ==
    [fn |-> "processFrameLocal", pc |-> "start", imageData |-> imageData, modes |-> modes,
     config |-> config, ctx |-> TRUE,
     result |-> [kind |-> "none", data |-> <<>>, isInput |-> FALSE,
                 recolored |-> <<>>, keyed |-> <<>>]]

\* the call is made
CallProcessFrameLocal(hasCtx, exact) ==
    /\ call.fn = "processFrameLocal"
    /\ call.pc = "start"
    /\ call' = [call EXCEPT !.pc = "returned", !.ctx = hasCtx,
                            !.result = processFrameLocal(hasCtx, exact, call.imageData,
                                                         call.modes, call.config)]
    /\ UNCHANGED editorVars

\* LocalSpec: one call of processFrameLocal on a frame of MaxPixels pixels
LocalInit ==
    /\ projects = <<>>
    /\ isBatchProcessing = FALSE
    /\ abortRef = FALSE
    /\ runs = <<>>
    /\ parsing = {}
    /\ uploaded = 0
    /\ \E imageData \in [1..MaxPixels -> LocalPixels], modes \in SUBSET {"recolor", "remove-bg"},
          config \in ProcessingConfig : call = NewLocalCall(imageData, modes, config)

LocalNext == \E hasCtx \in BOOLEAN, exact \in BOOLEAN : CallProcessFrameLocal(hasCtx, exact)

LocalSpec == LocalInit /\ [][LocalNext]_vars

\* the pixels of the frames given to processFrameLocal for recoloring: red,
\* colours at distances 25, 55, below 60 and exactly 60 from red, and blue;
\* (230, 0, 0) is at distance 25 from #FF0000 and from #CD0000
RecolorPixels ==
    { [r |-> c[1], g |-> c[2], b |-> c[3], a |-> a] :
        c \in { <<255, 0, 0>>, <<230, 0, 0>>, <<200, 0, 0>>, <<255, 35, 48>>,
                <<255, 36, 48>>, <<0, 0, 255>> },
        a \in {0, 9, 10, 255} }

\* the lists of recolor rules: the sources come from a colour picker, the
\* targets from a colour picker or a text field
RecolorRules ==
    { <<>>,
      << [original |-> "#FF0000", target |-> "#0000FF"] >>,
      << [original |-> "#FF0000", target |-> "#0000FF"], [original |-> "#C80000", target |-> "#00FF00"] >>,
      << [original |-> "#C80000", target |-> "#00FF00"], [original |-> "#FF0000", target |-> "#0000FF"] >>,
      << [original |-> "#FF0000", target |-> "#0000FF"], [original |-> "#CD0000", target |-> "#00FF00"] >>,
      << [original |-> "#CD0000", target |-> "#00FF00"], [original |-> "#FF0000", target |-> "#0000FF"] >>,
      << [original |-> "#FF0000", target |-> "#808080"] >>,
      << [original |-> "#FF0000", target |-> "blue"] >> }

\* the configurations given to processFrameLocal for recoloring
RecolorConfig ==
    [recolorPairs : RecolorRules, removeBgColor : {"#00FF00"}, bgReplacementColor : {"null", "#FFFFFF"}]

\* RecolorSpec: one call of processFrameLocal with recolor rules
RecolorInit ==
    /\ projects = <<>>
    /\ isBatchProcessing = FALSE
    /\ abortRef = FALSE
    /\ runs = <<>>
    /\ parsing = {}
    /\ uploaded = 0
    /\ \E imageData \in [1..MaxPixels -> RecolorPixels], modes \in SUBSET {"recolor", "remove-bg"},
          config \in RecolorConfig : call = NewLocalCall(imageData, modes, config)

RecolorSpec == RecolorInit /\ [][LocalNext]_vars

\* ------------------------------------------- handleFileUpload, the frames
\* the sum of the delays of a sequence of frames
RECURSIVE SumDelays(_)
SumDelays(frames) ==
    IF frames = <<>> THEN 0 ELSE frames[1].delay + SumDelays(Tail(frames))

\* Math.ceil(a / b) for a >= 0, b > 0
Ceil(a, b) == (a + b - 1) \div b

\* lines 159-166: filter((_, i) => i % stride === 0) keeps the frames of the
\* 0-based indexes 0, stride, 2 stride, ...; then delay: f.delay * stride
processedFrames(parsedFrames) ==
    IF Len(parsedFrames) > MAX_FRAMES
    THEN LET stride == Ceil(Len(parsedFrames), MAX_FRAMES)
             kept == Ceil(Len(parsedFrames), stride)
         IN [j \in 1..kept |-> [parsedFrames[(j - 1) * stride + 1] EXCEPT !.delay = @ * stride]]
    ELSE parsedFrames

\* the delays of decoded frames: all 100 ms (the decoder's default), all
\* 20 ms, or 20 ms and 100 ms in turn
DelayPatterns == { <<100, 100>>, <<20, 20>>, <<20, 100>> }

\* what parseGifFrames returns for a file of n frames: each frame with its
\* 0-based index in the file and its delay
ParsedFrames(n, pattern) ==
    [i \in 1..n |-> [index |-> i - 1, delay |-> pattern[((i - 1) % 2) + 1]]]

\* the frames of an upload about to be reduced
NewUpload(parsedFrames) ==
    [fn |-> "handleFileUpload", pc |-> "parsed", parsedFrames |-> parsedFrames,
     processedFrames |-> <<>>]

\* lines 158-166 of the upload callback
ReduceFrames ==
    /\ call.fn = "handleFileUpload"
    /\ call.pc = "parsed"
    /\ call' = [call EXCEPT !.pc = "reduced",
                            !.processedFrames = processedFrames(call.parsedFrames)]
    /\ UNCHANGED editorVars

\* UploadSpec: the frames of one upload of up to MaxDecoded frames
UploadInit ==
    /\ projects = <<>>
    /\ isBatchProcessing = FALSE
    /\ abortRef = FALSE
    /\ runs = <<>>
    /\ parsing = {}
    /\ uploaded = 0
    /\ \E n \in 0..MaxDecoded, pattern \in DelayPatterns : call = NewUpload(ParsedFrames(n, pattern))

UploadNext == ReduceFrames

UploadSpec == UploadInit /\ [][UploadNext]_vars

\* ------------------------------------------------------------------ claims
Encoding(r) == r \in DOMAIN runs /\ runs[r].pc = "encoding"

Filled(run) == { k \in DOMAIN run.results : run.results[k] # NoResult }

\* the indices of the jobs whose remote call is in flight
InFlight(run) == { run.workers[w].index : w \in { v \in DOMAIN run.workers : run.workers[v].pc = "remote" } }

\* C1: the frame sequence passed to createGif lists the per-frame results in
\* ascending original index, each being the result recorded for that frame,
\* and its length is the number of non-null entries of the result buffer.
C1_EncoderGetsIndexOrder ==
    \A r \in DOMAIN runs : Encoding(r) =>
        LET enc == runs[r].encoded IN
        /\ \A i, j \in DOMAIN enc : i < j => enc[i].idx < enc[j].idx
        /\ \A i \in DOMAIN enc : enc[i].idx \in Filled(runs[r]) /\ runs[r].results[enc[i].idx] = enc[i]
        /\ Len(enc) = Cardinality(Filled(runs[r]))

\* a run of three frames reaches the encoder with a remote result after a local one
C1_Witness ==
    \E r \in DOMAIN runs :
        /\ Encoding(r)
        /\ Len(runs[r].encoded) = 3
        /\ runs[r].encoded[1].by = "local"
        /\ runs[r].encoded[2].by = "remote"

\* C2: a job that starts after the quota flag of its run was set makes no
\* remote call and its result is the local processor's.
C2_NoRemoteAfterQuotaFlag ==
    \A r \in DOMAIN runs : \A i \in runs[r].afterQuota :
        /\ i \notin runs[r].remoteCalls
        /\ i \notin InFlight(runs[r])
        /\ runs[r].results[i] # NoResult => runs[r].results[i].by = "local"

\* a job started after the flag was set and recorded a local result
C2_Witness ==
    \E r \in DOMAIN runs : \E i \in runs[r].afterQuota :
        /\ runs[r].quotaLimitReached
        /\ runs[r].results[i].by = "local"

Live(run) == run.pc = "workers"

\* the status of the project with this id in a project list, "none" if removed
StatusOf(ps, id) ==
    IF \E i \in DOMAIN ps : ps[i].id = id
    THEN ps[CHOOSE i \in DOMAIN ps : ps[i].id = id].status
    ELSE "none"

ProgressOf(ps, id) ==
    IF \E i \in DOMAIN ps : ps[i].id = id
    THEN ps[CHOOSE i \in DOMAIN ps : ps[i].id = id].progress
    ELSE 0

\* C4: once Stop was pressed during a run, no new frame job of that run
\* starts, a job in flight stays in flight until its result is recorded, and
\* the run has at most N recorded results.
C4_NoJobStartsAfterCancel ==
    [][\A r \in DOMAIN runs : (runs[r].cancelRequested /\ Live(runs[r])) =>
          /\ Started(runs'[r]) \subseteq Started(runs[r])
          /\ \A k \in InFlight(runs[r]) : k \in InFlight(runs'[r]) \cup Filled(runs'[r])
          /\ Cardinality(Filled(runs'[r])) <= runs[r].frames]_vars

\* C5: a run for which Stop was pressed before its workers returned never
\* reaches the encoder, and when its workers have returned its project is
\* IDLE with progress 0, never ENCODING, COMPLETED or ERROR.
C5_CancelledRunResolvesCancelled ==
    [][\A r \in DOMAIN runs : (runs[r].cancelRequested /\ Live(runs[r]) /\ ~Live(runs'[r])) =>
          /\ runs'[r].pc # "encoding"
          /\ StatusOf(projects', runs[r].pid) \in {"IDLE", "none"}
          /\ ProgressOf(projects', runs[r].pid) = 0]_vars

\* C6: while the batch is active at most one project is PROCESSING or ENCODING.
C6_OneProjectBusyInBatch ==
    isBatchProcessing =>
        Cardinality({ i \in DOMAIN projects : projects[i].status \in {"PROCESSING", "ENCODING"} }) <= 1

\* a worker of the run is about to take a job or waits for the remote call
Executing(run) ==
    Live(run) /\ \E w \in DOMAIN run.workers : run.workers[w].pc \in {"loop", "remote"}

\* C7: at most one run has workers executing or jobs in flight, whether or
\* not its project is still in the list or Stop was pressed for it.
C7_OneRunExecuting ==
    Cardinality({ r \in DOMAIN runs : Executing(runs[r]) }) <= 1

\* the step starts a run on behalf of the batch
BatchRunStarts ==
    /\ Len(runs') = Len(runs) + 1
    /\ runs'[Len(runs')].origin = "batch"

\* the index in the list of the project of the run that the step starts
StartedIndex == CHOOSE i \in DOMAIN projects : projects[i].id = runs'[Len(runs')].pid

\* C8: the batch starts a run only while the batch is active and no project
\* is PROCESSING or ENCODING, for a project that is IDLE and that no IDLE
\* project precedes in the list.
C8_BatchStartsFirstIdle ==
    [][BatchRunStarts =>
          /\ isBatchProcessing
          /\ ~isProcessingAny
          /\ runs'[Len(runs')].pid \in ProjectIds
          /\ projects[StartedIndex].status = "IDLE"
          /\ \A j \in 1..(StartedIndex - 1) : projects[j].status # "IDLE"]_vars

\* the batch started the run of the second project of the list after the first was done
C8_Witness ==
    /\ Len(projects) >= 2
    /\ projects[1].status \in {"COMPLETED", "ERROR"}
    /\ projects[2].status = "PROCESSING"
    /\ \E r \in DOMAIN runs : runs[r].origin = "batch" /\ runs[r].pid = projects[2].id

\* C9: a batch that is left alone eventually clears its flag, and the step
\* that clears it leaves no IDLE project.
C9_BatchEnds ==
    /\ isBatchProcessing ~> ~isBatchProcessing
    /\ [][(isBatchProcessing /\ ~isBatchProcessing') =>
             \A i \in DOMAIN projects' : projects'[i].status # "IDLE"]_vars

\* the batch went through two projects and cleared its flag
C9_Witness ==
    /\ ~isBatchProcessing
    /\ Len(runs) = 2
    /\ Len(projects) = 2
    /\ \A i \in DOMAIN projects : projects[i].status = "COMPLETED"

\* a run without the history of the Stop button
Bare(rs) == [r \in DOMAIN rs |-> [rs[r] EXCEPT !.cancelRequested = FALSE]]

\* the step is the one of the Stop button
StopStep == isBatchProcessing /\ ~isBatchProcessing' /\ abortRef'

\* C10: the Stop button sets abortRef, clears the batch flag and leaves the
\* projects and the runs as they are, and no run is started for the batch
\* while the batch flag is clear.
C10_StopChangesFlagsOnly ==
    [][/\ StopStep => (projects' = projects /\ Bare(runs') = Bare(runs)
                       /\ parsing' = parsing /\ uploaded' = uploaded)
       /\ ~isBatchProcessing => ~BatchRunStarts]_vars

\* Stop was pressed while one project was done and the next one in progress
C10_Witness ==
    /\ abortRef
    /\ ~isBatchProcessing
    /\ \E i \in DOMAIN projects : projects[i].status = "COMPLETED" /\ projects[i].resultBlob # 0
    /\ \E r \in DOMAIN runs : runs[r].cancelRequested /\ Live(runs[r])

\* the status changes of one project that the life cycle allows: the parse
\* ends, a run starts, goes on to the encoder and completes, a cancelled run
\* goes back to IDLE, anything may fail, and a reset leads back to IDLE
AllowedStatusChange ==
    { <<"PARSING", "IDLE">>, <<"IDLE", "PROCESSING">>, <<"PROCESSING", "ENCODING">>,
      <<"ENCODING", "COMPLETED">>, <<"PROCESSING", "IDLE">>,
      <<"COMPLETED", "IDLE">>, <<"ERROR", "IDLE">> }
    \cup { <<s, "ERROR">> : s \in ProcessingStatus }

\* C11: the status of a project changes only along IDLE, PROCESSING,
\* ENCODING, COMPLETED, or to ERROR; COMPLETED and ERROR are left only by a
\* reset to IDLE, never directly for PROCESSING.
C11_StatusLifeCycle ==
    [][\A id \in ProjectIds :
          LET old == StatusOf(projects, id)
              new == StatusOf(projects', id)
          IN (new # "none" /\ new # old) => <<old, new>> \in AllowedStatusChange]_vars

\* C12: while a run over N frames has not resolved, the progress of its
\* project is within 0..100, never decreases, is round(100 * completed / N)
\* after every job the run finishes, and is 100 when all N jobs are finished.
C12_ProgressFollowsCompletedCount ==
    [][\A r \in DOMAIN runs :
          (Live(runs[r]) /\ StatusOf(projects', runs[r].pid) # "none") =>
             LET N == runs[r].frames
                 before == ProgressOf(projects, runs[r].pid)
                 after == ProgressOf(projects', runs[r].pid)
             IN /\ after \in 0..100
                /\ Live(runs'[r]) => after >= before
                /\ runs'[r].completedCount > runs[r].completedCount =>
                      after = RoundPercent(runs'[r].completedCount, N)
                /\ (Live(runs'[r]) /\ runs'[r].completedCount = N) => after = 100]_vars

\* C13: the encoder gets the transparent key 0x00FF00 exactly when remove-bg
\* is active, the replacement is 'transparent', remote processing is enabled
\* for the run and no remote failure of the run was a quota failure; in every
\* other case it gets null.
C13_TransparentKeyRule ==
    \A r \in DOMAIN runs : Encoding(r) =>
        /\ runs[r].transparentKey \in {"0x00FF00", "null"}
        /\ runs[r].transparentKey = "0x00FF00" <=>
              /\ "remove-bg" \in runs[r].activeModes
              /\ runs[r].bgReplaceColor = "transparent"
              /\ runs[r].activeUseAI
              /\ runs[r].quotaFailed = {}

\* a run with remote processing and transparent removal reaches the encoder
\* with the key after a remote failure that was not a quota failure
C13_Witness ==
    \E r \in DOMAIN runs :
        /\ Encoding(r)
        /\ runs[r].transparentKey = "0x00FF00"
        /\ \E i \in runs[r].remoteCalls : runs[r].results[i].by = "local"

\* C14: when the remote path of a job fails (the call throws, with a quota
\* error or any other, the response has no image, the image cannot be read
\* back) and local processing works, the job records the local result for its
\* frame in the same step, no worker rejects and the status of the project is
\* left as it is.
C14_RemoteFailureFallsBack ==
    [][\A r \in DOMAIN runs :
          /\ \A i \in runs'[r].remoteFailed : runs'[r].results[i] = [idx |-> i, by |-> "local"]
          /\ runs'[r].remoteFailed \ runs[r].remoteFailed # {} =>
                /\ StatusOf(projects', runs[r].pid) = StatusOf(projects, runs[r].pid)
                /\ ~SomeWorkerRejected(r)']_vars

\* a run in which a quota failure and a failure of another kind were both
\* replaced by local results reaches the encoder
C14_Witness ==
    \E r \in DOMAIN runs :
        /\ Encoding(r)
        /\ StatusOf(projects, runs[r].pid) = "ENCODING"
        /\ Cardinality(runs[r].remoteFailed) >= 2
        /\ runs[r].quotaFailed # {}
        /\ \E i \in runs[r].remoteFailed : \A q \in runs[r].quotaFailed : q.index # i

\* the invocation under examination
Invocation == call.fn = "editFrameWithGemini"

\* a failure with status 429 or with a quota word in its message
QuotaClassified(out) ==
    out.kind = "error" /\ (out.status = 429 \/ out.words \cap {"429", "quota", "exhausted"} # {})

\* C15: one invocation calls the service at most 4 times; every call but the
\* last failed with a quota-classified error; a failure of another kind ends
\* the invocation with that error at once, and so does the quota failure of
\* the fourth call.
C15_AtMostFourCalls ==
    Invocation =>
        LET n == Len(call.attempts) IN
        /\ n <= 4
        /\ \A k \in 1..(n - 1) : QuotaClassified(call.attempts[k])
        /\ (n > 0 /\ call.attempts[n].kind = "error" /\ ~QuotaClassified(call.attempts[n])) =>
              (call.pc = "thrown" /\ call.error = call.attempts[n])
        /\ (n = 4 /\ QuotaClassified(call.attempts[4])) =>
              (call.pc = "thrown" /\ call.error = call.attempts[4])
        /\ (call.pc = "thrown" /\ n > 0) => call.error = call.attempts[n]

\* three retries after quota failures, and the fourth call failed as well
C15_Witness ==
    /\ Invocation
    /\ Len(call.attempts) = 4
    /\ call.pc = "thrown"
    /\ QuotaClassified(call.error)
    /\ call.attempts[1].status = 429 /\ call.attempts[1].words = {}

\* C16: every frame job that starts eventually records a result in its slot
\* (a job on the local path records it in the step that starts it, so the
\* jobs that wait are those in flight), and the result of a job whose remote
\* path was not used or failed is the local one.
C16_StartedJobRecords ==
    /\ \A r \in 1..MaxRuns : \A i \in 0..(MaxRunFrames - 1) :
          (r \in DOMAIN runs /\ i \in InFlight(runs[r]))
             ~> (r \in DOMAIN runs /\ i \in Filled(runs[r]))
    /\ [](\A r \in DOMAIN runs : \A i \in Filled(runs[r]) :
             (~runs[r].activeUseAI \/ i \in runs[r].afterQuota \/ i \in runs[r].remoteFailed)
                => runs[r].results[i] = [idx |-> i, by |-> "local"])

\* the project has no frames or no active mode
Unprocessable(p) == p.frames = 0 \/ p.activeModes = {}

\* C17: a project without frames or without an active mode never gets a run
\* and never becomes PROCESSING, ENCODING or COMPLETED; the step that answers
\* a request for it sets ERROR with the message of the failed check and
\* leaves abortRef and the runs as they are.
C17_NoRunWithoutFramesOrModes ==
    [][\A i \in DOMAIN projects : Unprocessable(projects[i]) =>
          LET id == projects[i].id IN
          /\ \A r \in DOMAIN runs' : runs'[r].pid # id
          /\ StatusOf(projects', id) \in {"IDLE", "ERROR", "none"}
          /\ StatusOf(projects', id) # projects[i].status =>
                /\ StatusOf(projects', id) = "ERROR"
                /\ ProjectById(id)'.error =
                      (IF projects[i].frames = 0 THEN "No frames to process." ELSE "No modes selected.")
                /\ ProjectById(id)'.resultBlob = projects[i].resultBlob
                /\ abortRef' = abortRef
                /\ runs' = runs]_vars

\* the button was pressed for a project without frames while abortRef was set
C17_Witness ==
    /\ abortRef
    /\ runs = <<>>
    /\ \E i \in DOMAIN projects :
          /\ projects[i].frames = 0
          /\ projects[i].status = "ERROR"
          /\ projects[i].error = "No frames to process."

\* the project with this id in a project list that has it
ProjectIn(ps, id) == ps[CHOOSE i \in DOMAIN ps : ps[i].id = id]

\* C18: when the encoder fails for a run, the project of the run ends in
\* ERROR with an error message and without a result blob.
C18_EncodeFailureLeavesNoBlob ==
    [][\A r \in DOMAIN runs :
          (/\ Encoding(r)
           /\ runs'[r].pc # "encoding"
           /\ StatusOf(projects', runs[r].pid) \notin {"COMPLETED", "none"}) =>
             LET p == ProjectIn(projects', runs[r].pid) IN
             /\ p.status = "ERROR"
             /\ p.error # "null"
             /\ p.resultBlob = 0]_vars

\* a call of processFrameLocal has returned
LocalReturned == call.fn = "processFrameLocal" /\ call.pc = "returned"

\* C19: without a 2D context processFrameLocal fails with an error and does
\* not return the input frame as its result.
C19_NoContextIsAnError ==
    (LocalReturned /\ ~call.ctx) => (call.result.kind = "error" /\ ~call.result.isInput)

\* processFrameLocal threw in a job of the run
LocalFailed(run) == \E w \in DOMAIN run.workers : run.workers[w].pc = "rejected"

\* C20: a run in which the local processing of a frame failed never reaches
\* the encoder, and the step that ends the wait for its workers sets its
\* project to ERROR with an error message and leaves the result blob alone;
\* afterwards that run changes neither the status nor the message.
C20_LocalFailureFailsRun ==
    [][\A r \in DOMAIN runs : LocalFailed(runs[r]) =>
          /\ runs[r].pc # "encoding" /\ runs'[r].pc # "encoding"
          /\ StatusOf(projects', runs[r].pid) # "none" =>
                LET before == ProjectIn(projects, runs[r].pid)
                    after == ProjectIn(projects', runs[r].pid)
                IN /\ after.status # "COMPLETED"
                   /\ (Live(runs[r]) /\ ~Live(runs'[r])) =>
                         (after.status = "ERROR" /\ after.error = "Processing failed."
                          /\ after.resultBlob = before.resultBlob)
                   /\ ~Live(runs[r]) =>
                         (after.status = "ERROR" /\ after.error = before.error)]_vars

\* the run failed on one frame while the other worker's frame is in flight
C20_Witness ==
    \E r \in DOMAIN runs :
        /\ LocalFailed(runs[r])
        /\ runs[r].pc = "done"
        /\ InFlight(runs[r]) # {}
        /\ StatusOf(projects, runs[r].pid) = "ERROR"
        /\ ProjectIn(projects, runs[r].pid).error = "Processing failed."

\* the recolor step of lines 192-235 has run in the call of processFrameLocal
Recoloring ==
    /\ call.fn = "processFrameLocal"
    /\ call.pc = "returned"
    /\ call.ctx
    /\ "recolor" \in call.modes
    /\ Len(call.config.recolorPairs) > 0

\* the colours the recolor rules of the call name as sources
RuleSources == { hexToRgb(call.config.recolorPairs[i].original) : i \in DOMAIN call.config.recolorPairs }

\* pixel k of the call's frame is within distance 60 of no rule's source
FarFromEverySource(k) == \A c \in RuleSources : Dist2(call.imageData[k], c) >= 60 * 60

\* C21: recoloring leaves a pixel byte-identical when its alpha is below 10,
\* or when its distance to the source colour of every rule is at least 60,
\* and it never changes the alpha of a pixel.
C21_RecolorLeavesUnmatchedPixels ==
    Recoloring =>
        \A k \in DOMAIN call.imageData :
            /\ (call.imageData[k].a < 10 \/ FarFromEverySource(k))
                   => call.result.recolored[k] = call.imageData[k]
            /\ call.result.recolored[k].a = call.imageData[k].a

\* a recoloring that changed one pixel and left alone another one at distance
\* exactly 60, or one with alpha 9 that is near a source
C21_Witness ==
    /\ Recoloring
    /\ \E k \in DOMAIN call.imageData :
          /\ call.imageData[k].a >= 10
          /\ FarFromEverySource(k)
          /\ \E c \in RuleSources : Dist2(call.imageData[k], c) = 60 * 60

\* the background removal of lines 238-278 has run in the call of
\* processFrameLocal: it read the bytes 'recolored' and left the bytes 'keyed'
RemovingBg ==
    /\ call.fn = "processFrameLocal"
    /\ call.pc = "returned"
    /\ call.ctx
    /\ "remove-bg" \in call.modes

\* the key colour of the call, a hex colour
KeyColour == hexToRgb(call.config.removeBgColor)

C23_SolidModeRemoval ==
    (RemovingBg /\ KeyColour # NoRgb /\ call.config.bgReplacementColor # "null") =>
        \A k \in DOMAIN call.imageData :
            LET in == call.result.recolored[k]
                out == call.result.keyed[k]
                replaceRGB == hexToRgb(call.config.bgReplacementColor)
            IN IF in.a > 0 /\ Dist2(in, KeyColour) < 60 * 60
               THEN /\ out.a = 255
                    /\ replaceRGB # NoRgb => (out.r = replaceRGB.r /\ out.g = replaceRGB.g /\ out.b = replaceRGB.b)
               ELSE out = in

\* rule i of the call is a nearest rule of pixel k, at a distance below 60
NearestRule(k, i) ==
    LET pairs == call.config.recolorPairs
        p == call.imageData[k]
    IN /\ Dist2(p, hexToRgb(pairs[i].original)) < 60 * 60
       /\ \A j \in DOMAIN pairs :
              Dist2(p, hexToRgb(pairs[i].original)) <= Dist2(p, hexToRgb(pairs[j].original))

\* hslToRgb(hue of the target, saturation of the target, lightness of pixel p)
TargetHueOn(target, p) ==
    LET t == rgbToHsl(hexToRgb(target).r, hexToRgb(target).g, hexToRgb(target).b)
    IN hslToRgb(t.hn, t.hd, t.sn, t.sd, rgbToHsl(p.r, p.g, p.b).L)

\* the call recolors a frame of opaque pure red with the one rule red to blue
RedToBlue ==
    /\ Recoloring
    /\ call.config.recolorPairs = << [original |-> "#FF0000", target |-> "#0000FF"] >>
    /\ \A k \in DOMAIN call.imageData : call.imageData[k] = [r |-> 255, g |-> 0, b |-> 0, a |-> 255]

Reduced == call.fn = "handleFileUpload" /\ call.pc = "reduced"

\* C25: more than 50 decoded frames are reduced to every stride-th frame from
\* index 0 with stride = ceil(n / 50), at most 50 frames, each delay times
\* stride, and the same total of delays; up to 50 frames are left unchanged.
C25_DownsamplingKeepsDuration ==
    Reduced =>
        LET n == Len(call.parsedFrames)
            stride == Ceil(n, MAX_FRAMES)
            out == call.processedFrames
        IN IF n > MAX_FRAMES
           THEN /\ Len(out) <= MAX_FRAMES
                /\ \A j \in DOMAIN out :
                       /\ out[j].index = (j - 1) * stride
                       /\ out[j].delay = call.parsedFrames[out[j].index + 1].delay * stride
                /\ \A i \in DOMAIN call.parsedFrames :
                       (i - 1) % stride = 0 => \E j \in DOMAIN out : out[j].index = i - 1
                /\ SumDelays(out) = SumDelays(call.parsedFrames)
           ELSE out = call.parsedFrames

\* a step in which the remote path of a job of run r failed without a quota
\* keyword in the error
NonQuotaFailure(r) ==
    /\ r \in DOMAIN runs
    /\ runs[r].pc = "workers"
    /\ runs'[r].remoteFailed \ runs[r].remoteFailed # {}
    /\ runs'[r].quotaFailed = runs[r].quotaFailed

\* a step in which a worker of run r takes a job although the run has had a
\* remote failure, with remote processing enabled and the flag unset
StartAfterFailure(r) ==
    /\ r \in DOMAIN runs
    /\ runs[r].pc = "workers"
    /\ runs[r].remoteFailed # {}
    /\ runs[r].activeUseAI /\ ~runs[r].quotaLimitReached
    /\ runs[r].queue # <<>>
    /\ runs'[r].queue = Tail(runs[r].queue)

\* C26: a remote failure that is not a quota failure does not set the
\* quota-exhaustion flag, and a job started after it still goes to the remote
\* call while remote processing is enabled and the flag is unset.
C26_OtherFailureLeavesFlag ==
    [][\A r \in 1..MaxRuns :
          /\ NonQuotaFailure(r) => runs'[r].quotaLimitReached = runs[r].quotaLimitReached
          /\ StartAfterFailure(r) =>
                 \E w \in WorkerIds(r) :
                     /\ runs[r].workers[w].pc = "loop"
                     /\ runs'[r].workers[w] = [pc |-> "remote", index |-> Head(runs[r].queue)]]_vars

\* job 0 failed remotely, job 1 is still in flight, and job 2, started since,
\* is at its remote call with the flag unset
C26_Witness ==
    \E r \in DOMAIN runs :
        /\ runs[r].remoteFailed = {0}
        /\ ~runs[r].quotaLimitReached
        /\ \E w1, w2 \in WorkerIds(r) :
               /\ runs[r].workers[w1] = [pc |-> "remote", index |-> 1]
               /\ runs[r].workers[w2] = [pc |-> "remote", index |-> 2]

\* C27: every failure that the retry wrapper treats as quota (status 429 or a
\* quota keyword in the message) and that reaches the scheduler sets the run's
\* quota-exhaustion flag, and no failure it treats as non-quota sets it.
C27_SameClassification ==
    [][\A r \in 1..MaxRuns, w \in 1..CONCURRENCY, e \in RemoteErrors, postOk \in BOOLEAN :
          LET out == [kind |-> "error", status |-> e.status, words |-> e.words] IN
          RemoteDone(r, w, out, postOk, TRUE) =>
              /\ isQuotaError(e) => runs'[r].quotaLimitReached
              /\ ~isQuotaError(e) => runs'[r].quotaLimitReached = runs[r].quotaLimitReached]_vars

\* C28: the waits of one invocation are, in order, in [2000, 3000),
\* [4000, 5000) and [8000, 9000): 2000 * 2^k plus a jitter below 1000 before
\* retry k; one wait between two calls, none before the first call and none
\* after the last failure.
C28_BackoffSchedule ==
    Invocation =>
        LET n == Len(call.attempts)
            m == Len(call.waits)
        IN /\ m <= 3
           /\ \A k \in 1..m :
                  /\ call.waits[k] >= 2000 * Pow2(k - 1)
                  /\ call.waits[k] < 2000 * Pow2(k - 1) + 1000
           /\ \A k \in 1..(m - 1) : call.waits[k] < call.waits[k + 1]
           /\ call.pc \in {"start", "calling", "waiting"} => m = n
           /\ call.pc = "returned" => m = n - 1
           /\ call.pc = "thrown" => m = (IF n = 0 THEN 0 ELSE n - 1)

\* the invocation failed after its three waits
C28_Witness ==
    /\ Invocation
    /\ call.pc = "thrown"
    /\ Len(call.waits) = 3
    /\ call.waits[1] = 2999 /\ call.waits[2] = 4000 /\ call.waits[3] = 8500

\* the workers of a run that are inside a job (at its remote call)
BusyWorkers(run) == { w \in DOMAIN run.workers : run.workers[w].pc \in {"remote", "hung"} }

\* the queue of the run holds the indexes k .. N-1 in ascending order
AscendingRest(run) ==
    /\ Len(run.queue) <= run.frames
    /\ \A i \in DOMAIN run.queue : run.queue[i] = run.frames - Len(run.queue) + i - 1

\* at most min(2, N) jobs of the run are in flight, each for an index of its
\* own that has left the queue; the queue holds the indexes not yet started
\* in ascending order; a run at the encoder has started every index
PoolOfTwo(run) ==
    /\ Cardinality(BusyWorkers(run)) <= Min(2, run.frames)
    /\ \A v, w \in BusyWorkers(run) : v # w => run.workers[v].index # run.workers[w].index
    /\ \A w \in BusyWorkers(run) : run.workers[w].index \in Started(run)
    /\ AscendingRest(run)
    /\ run.pc = "encoding" => Started(run) = 0..(run.frames - 1)

\* a step that changes the queue of a run takes the job at its head, for a
\* worker that was not inside a job
TakesHead(old, new) ==
    (old.pc = "workers" /\ new.pc = "workers" /\ new.queue # old.queue) =>
        /\ old.queue # <<>>
        /\ new.queue = Tail(old.queue)
        /\ \A w \in BusyWorkers(old) : new.workers[w] = old.workers[w]
        /\ \A w \in BusyWorkers(new) \ BusyWorkers(old) : new.workers[w].index = Head(old.queue)

\* C29: in one run over N frames at most min(2, N) jobs are in flight; jobs
\* are taken from the queue in ascending index order, each index at most once
\* (an index never returns to the queue); a run that is neither cancelled nor
\* failed has started every index 0..N-1 when it reaches the encoder.
C29_PoolOfTwoInOrder ==
    [][\A r \in DOMAIN runs' :
          /\ PoolOfTwo(runs'[r])
          /\ r \in DOMAIN runs => TakesHead(runs[r], runs'[r])]_vars

\* a run over three frames has reached the encoder with its three results
C29_Witness ==
    \E r \in DOMAIN runs :
        /\ runs[r].frames = 3
        /\ runs[r].pc = "encoding"
        /\ Len(runs[r].encoded) = 3
        /\ Started(runs[r]) = {0, 1, 2}

\* the remote edit of a job returns an image that is read back, and
\* nothing throws afterwards
RemoteImage == [kind |-> "image", status |-> 0, words |-> {}]

\* C30: a frame whose remote edit succeeded goes through local background
\* removal, with key #00FF00, the configured replacement colour and no
\* recolor rule or recolor mode, exactly when remove-bg is active and the
\* replacement is not 'transparent'; otherwise its result is the remote image.
C30_PostProcessOnlySolidReplacement ==
    [][\A r \in 1..MaxRuns, w \in 1..CONCURRENCY :
          RemoteDone(r, w, RemoteImage, TRUE, TRUE) =>
              LET i == runs[r].workers[w].index IN
              IF "remove-bg" \in runs[r].activeModes /\ runs[r].bgReplaceColor # "transparent"
              THEN runs'[r].results[i] =
                       [idx |-> i, by |-> "remote+removeBg",
                        post |-> [modes |-> {"remove-bg"},
                                  config |-> [recolorPairs |-> <<>>, removeBgColor |-> "#00FF00",
                                              bgReplacementColor |-> runs[r].bgReplaceColor]]]
              ELSE runs'[r].results[i] = [idx |-> i, by |-> "remote"]]_vars

\* recolor and remove-bg with a white replacement: the result of a frame is
\* the remote image passed through the background removal
C30_Witness ==
    \E r \in DOMAIN runs :
        /\ runs[r].activeModes = {"recolor", "remove-bg"}
        /\ runs[r].bgReplaceColor = "#FFFFFF"
        /\ \E i \in DOMAIN runs[r].results : runs[r].results[i].by = "remote+removeBg"

\* the rules of the call whose source is at distance < 60 from pixel k
RulesInReach(k) ==
    { i \in DOMAIN call.config.recolorPairs :
        Dist2(call.imageData[k], hexToRgb(call.config.recolorPairs[i].original)) < 60 * 60 }

\* the earliest of the nearest rules of pixel k
FirstNearest(k) ==
    CHOOSE i \in DOMAIN call.config.recolorPairs :
        /\ NearestRule(k, i)
        /\ \A j \in 1..(i - 1) : ~NearestRule(k, j)

\* the rules of the call in the opposite order
ReversedRules ==
    LET pairs == call.config.recolorPairs
    IN [i \in DOMAIN pairs |-> pairs[Len(pairs) + 1 - i]]

\* C31: a pixel with alpha >= 10 within distance 60 of the sources of two or
\* more rules is recolored by the rule at the smallest distance, whatever the
\* order of the rules, and by the earlier rule when two rules are at the same
\* smallest distance.
C31_BestMatchNotFirstMatch ==
    (Recoloring /\ \A i \in DOMAIN call.config.recolorPairs :
                      hexToRgb(call.config.recolorPairs[i].target) # NoRgb) =>
        \A k \in DOMAIN call.imageData :
            (call.imageData[k].a >= 10 /\ Cardinality(RulesInReach(k)) >= 2) =>
                LET p == call.imageData[k]
                    new == TargetHueOn(call.config.recolorPairs[FirstNearest(k)].target, p)
                IN /\ call.result.recolored[k] = [r |-> new.r, g |-> new.g, b |-> new.b, a |-> p.a]
                   /\ Cardinality({ i \in RulesInReach(k) : NearestRule(k, i) }) = 1
                          => call.result.recolored[k] = recolorPixel(p, processedPairs(ReversedRules))

\* a pixel in reach of two rules is recolored by the second one, the nearer
C31_Witness ==
    /\ Recoloring
    /\ \E k \in DOMAIN call.imageData :
          /\ call.imageData[k].a >= 10
          /\ Cardinality(RulesInReach(k)) >= 2
          /\ FirstNearest(k) = 2
          /\ call.result.recolored[k] # call.imageData[k]

\* the frame is one that getImageData returns on a canvas of the kind
\* 'exact': the frames the editor passes to processFrameLocal are read from a
\* canvas (parseGifFrames line 113, resizeFrame line 147, GifEditor line 295)
FromCanvas(data, exact) == CanvasRoundTrip(data, exact) = data

\* no step of the call applies: recoloring is off or has no rule, and
\* background removal is off
NoStepApplies ==
    /\ ("recolor" \notin call.modes \/ Len(call.config.recolorPairs) = 0)
    /\ "remove-bg" \notin call.modes

\* C32: the local processor recolors first and removes the background from
\* the recolored pixels, skips recoloring when the mode is off or there is no
\* rule, skips removal when remove-bg is off, leaves the pixels of its input
\* frame as they were, and with no step applied returns pixels equal to those
\* of an input frame that was read from a canvas.
C32_RecolorThenRemove ==
    [][\A exact \in BOOLEAN :
          CallProcessFrameLocal(TRUE, exact) =>
              LET in == call.imageData
                  res == call'.result
              IN /\ call'.imageData = in
                 /\ res.recolored =
                        IF "recolor" \in call.modes /\ Len(call.config.recolorPairs) > 0
                        THEN [k \in DOMAIN in |->
                                 recolorPixel(in[k], processedPairs(call.config.recolorPairs))]
                        ELSE in
                 /\ res.keyed = IF "remove-bg" \in call.modes
                                THEN removeBg(res.recolored, call.config) ELSE res.recolored
                 /\ res.data = CanvasRoundTrip(res.keyed, exact)
                 /\ (NoStepApplies /\ FromCanvas(in, exact)) => res.data = in]_vars

\* a pixel far from the key colour is recolored to a colour near the key and
\* then made transparent by the background removal
C32_Witness ==
    /\ Recoloring
    /\ RemovingBg
    /\ call.config.bgReplacementColor = "null"
    /\ \E k \in DOMAIN call.imageData :
          /\ call.imageData[k].a = 255
          /\ Dist2(call.imageData[k], KeyColour) >= 80 * 80
          /\ Dist2(call.result.recolored[k], KeyColour) < 60 * 60
          /\ call.result.keyed[k].a = 0

\* C33: when createGif is called for a run over N frames, the N slots of the
\* result buffer are filled, the frame list and the delay list have length N,
\* and the frame at position i is the result of original frame i, next to
\* the delay of original frame i.
C33_EncoderGetsEveryFrame ==
    \A r \in DOMAIN runs : Encoding(r) =>
        LET run == runs[r] IN
        /\ Filled(run) = 0..(run.frames - 1)
        /\ Len(run.encoded) = run.frames
        /\ Len(Delays(run)) = run.frames
        /\ \A i \in 1..run.frames :
               /\ run.encoded[i] = run.results[i - 1]
               /\ run.encoded[i].idx = Delays(run)[i]

\* a run of three frames that was stopped with jobs in flight and went on
\* after another run had started reaches the encoder
C33_Witness ==
    \E r \in DOMAIN runs :
        /\ Encoding(r)
        /\ runs[r].frames = 3
        /\ runs[r].cancelRequested
        /\ Len(runs[r].encoded) = 3

\* C34: a cancellation requested for a run stays in effect until the run has
\* resolved: while its workers have not all returned the flag it reads stays
\* set whatever other run or batch is started, none of its workers takes
\* another job, and the run does not go on to the encoder.
C34_CancellationStaysInEffect ==
    [][\A r \in DOMAIN runs : (runs[r].cancelRequested /\ Live(runs[r])) =>
          /\ Live(runs'[r]) => (abortRef' /\ runs'[r].queue = runs[r].queue)
          /\ runs'[r].pc \notin {"encoding"}
          /\ runs'[r].outcome \notin {"completed"}]_vars

\* the call has ended and its closure state is dropped
Retired(run) == run.pc = "done" /\ run.workers = <<>>

\* worker w of run r takes a job from the queue in this step
TakesJob(r, w) ==
    /\ runs[r].queue # <<>>
    /\ ~abortRef
    /\ \E localOk \in BOOLEAN : WorkerLoop(r, w, localOk)

\* the remote path of a job of run r ends with a quota error in this step
QuotaFailure(r) ==
    \E w \in DOMAIN runs[r].workers, out \in RemoteOutcomes, postOk \in BOOLEAN, localOk \in BOOLEAN :
        /\ out.kind = "error"
        /\ isQuota(out)
        /\ RemoteDone(r, w, out, postOk, localOk)

\* C35: the quota flag belongs to one run and only rises: a run starts with
\* the flag unset whatever the flags of the other runs, the flag of a run is
\* set only by a quota failure of a job of that run, a job goes to the remote
\* path exactly when remote editing is on and the flag of its own run is
\* unset, and a set flag stays set until the run has ended.
C35_QuotaFlagPerRun ==
    [][\A r \in DOMAIN runs' :
          IF r \notin DOMAIN runs
          THEN ~runs'[r].quotaLimitReached
          ELSE /\ (runs[r].quotaLimitReached /\ ~Retired(runs'[r])) => runs'[r].quotaLimitReached
               /\ (~runs[r].quotaLimitReached /\ runs'[r].quotaLimitReached) => QuotaFailure(r)
               /\ \A w \in DOMAIN runs[r].workers :
                      TakesJob(r, w) =>
                          IF runs[r].activeUseAI /\ ~runs[r].quotaLimitReached
                          THEN ~Retired(runs'[r]) /\ runs'[r].workers[w].pc = "remote"
                          ELSE Retired(runs'[r]) \/ runs'[r].workers[w].pc # "remote"]_vars

\* two runs at work: the flag of the first is set, the second, started
\* later, has its flag unset and a remote call in flight
C35_Witness ==
    \E r1, r2 \in DOMAIN runs :
        /\ r1 < r2
        /\ Live(runs[r1]) /\ runs[r1].quotaLimitReached
        /\ Live(runs[r2]) /\ ~runs[r2].quotaLimitReached
        /\ InFlight(runs[r2]) # {}

\* the encoder call of a run of project id resolves with a blob in this step
EncoderResolvesFor(id) ==
    \E r \in DOMAIN runs :
        /\ runs[r].pid = id
        /\ EncodeDone(r, TRUE)
        /\ ProjectIn(projects', id).resultBlob = r

\* C36: a COMPLETED project has a result blob, and a project becomes
\* COMPLETED only from ENCODING, in the update that stores the blob the
\* encoder produced for that run.
C36_CompletedHasBlob ==
    [][\A i \in DOMAIN projects' :
          projects'[i].status = "COMPLETED" =>
              /\ projects'[i].resultBlob # 0
              /\ StatusOf(projects, projects'[i].id) # "COMPLETED" =>
                     /\ StatusOf(projects, projects'[i].id) = "ENCODING"
                     /\ EncoderResolvesFor(projects'[i].id)]_vars

\* a project is COMPLETED with the blob of its second run
C36_Witness ==
    \E i \in DOMAIN projects :
        /\ projects[i].status = "COMPLETED"
        /\ projects[i].resultBlob = 2

\* C37: when the encoder is given the transparent key 0x00FF00, every frame
\* passed to it in that run was produced by the remote path, none by the
\* local fallback.
C37_KeyOnlyWithRemoteFrames ==
    \A r \in DOMAIN runs :
        (Encoding(r) /\ runs[r].transparentKey = "0x00FF00") =>
            \A i \in DOMAIN runs[r].encoded : runs[r].encoded[i].by # "local"

\* a worker of run r takes a step
WorkerStep(r) ==
    \E w \in DOMAIN runs[r].workers :
        \/ \E localOk \in BOOLEAN : WorkerLoop(r, w, localOk)
        \/ \E out \in RemoteOutcomes \cup {Undecodable}, postOk \in BOOLEAN, localOk \in BOOLEAN :
               RemoteDone(r, w, out, postOk, localOk)

\* C38: once a run has failed and set its project to ERROR, no worker of the
\* run starts another frame job and the run no longer updates the progress or
\* the status of the project.
C38_FailedRunIsOver ==
    [][\A r \in DOMAIN runs :
          (runs[r].pc = "done" /\ runs[r].outcome = "failed" /\ WorkerStep(r)) =>
              /\ projects' = projects
              /\ Started(runs'[r]) \subseteq Started(runs[r])]_vars

\* a worker of run r comes to the start of a job in this step and finds the
\* cancellation flag set
FindsCancellation(r) ==
    /\ abortRef
    /\ \E w \in DOMAIN runs[r].workers, localOk \in BOOLEAN : WorkerLoop(r, w, localOk)

\* C39: all along a run over N frames the completed counter is the number of
\* filled slots of the result buffer and at most N, a filled slot is never
\* written again, and a worker that finds the cancellation flag set at the
\* start of a job writes no slot and does not count.
C39_CounterCountsFilledSlots ==
    [][\A r \in DOMAIN runs' :
          ~Retired(runs'[r]) =>
              /\ runs'[r].completedCount = Cardinality(Filled(runs'[r]))
              /\ runs'[r].completedCount <= runs'[r].frames
              /\ r \in DOMAIN runs =>
                     /\ \A k \in Filled(runs[r]) : runs'[r].results[k] = runs[r].results[k]
                     /\ Cardinality(Filled(runs'[r])) <= Cardinality(Filled(runs[r])) + 1
                     /\ FindsCancellation(r) =>
                            /\ runs'[r].results = runs[r].results
                            /\ runs'[r].completedCount = runs[r].completedCount
                            /\ runs'[r].queue = runs[r].queue]_vars

\* a worker of a run of three frames has left at the cancellation flag with
\* one slot filled and jobs left in the queue
C39_Witness ==
    \E r \in DOMAIN runs :
        /\ abortRef
        /\ Live(runs[r])
        /\ runs[r].frames = 3
        /\ runs[r].completedCount = 1
        /\ runs[r].queue # <<>>
        /\ \E w \in DOMAIN runs[r].workers : runs[r].workers[w].pc = "exit"

====
